---- MODULE Spec2Model ----
(***************************************************************************)
(* Similarity-analysis engine of the franchise recommendation backend:     *)
(*   backend/services/analysis_service.py   (AnalysisService)              *)
(*   backend/services/recommendation_service.py (create_recommendation)    *)
(*   backend/api/analysis.py  (run_analysis, create/update condition)      *)
(*   backend/models/models.py, backend/models/schemas.py (columns, fields) *)
(*                                                                         *)
(* Numbers are exact fixed point.  A feature value f in [0,1] is the       *)
(* integer f * FeatureOne; a weight w is the integer w * WeightOne; a      *)
(* similarity score s is the integer s * FeatureOne * WeightOne.  The raw  *)
(* attribute values used are multiples of the normalisation step, so the   *)
(* divisions of _normalize_value are exact.                                *)
(*                                                                         *)
(* The rows of reference_areas and location_data are attribute bags: every *)
(* attribute the extractor reads is present and holds a number or None.    *)
(* Objects lacking an attribute are handed to the extractor in SpecExtract. *)
(***************************************************************************)
EXTENDS Integers, Sequences, FiniteSets, TLC

\* ------------------------------------------------------------------ units
\* 1.0 on the feature scale (the upper clamp of _normalize_value).
FeatureOne == 100
\* 1.0 on the weight scale (the 1.0 of the weight-sum check); 0.001 is 1.
WeightOne == 1000
\* 1.0 on the score scale.
ScoreOne == FeatureOne * WeightOne

\* ----------------------------------------------------------------- bounds
\* Longest location_data table (rows in query order).
MaxLocations == 2
\* Most analysis_conditions rows.
MaxConditions == 1
\* Most recommendation_results rows.
MaxRecommendations == 2

\* An optional value is a sequence of length at most one.
None == <<>>
Some(v) == <<v>>

Abs(x) == IF x < 0 THEN -x ELSE x
Min(a, b) == IF a < b THEN a ELSE b
Max(a, b) == IF a > b THEN a ELSE b

\* Python's `x or 0`.
OrZero(x) == IF x = None THEN 0 ELSE x[1]

RECURSIVE SumOver(_, _)
\* Sum of f[x] over the finite set S.
SumOver(S, f) ==
    IF S = {} THEN 0
    ELSE LET x == CHOOSE y \in S : TRUE
         IN  f[x] + SumOver(S \ {x}, f)

\* The elements of a sequence.
Range(s) == {s[i] : i \in 1..Len(s)}

\* Python's seq[:n] for any integer n (a negative n counts from the end).
SliceTo(s, n) ==
    LET stop == IF n < 0 THEN Max(Len(s) + n, 0) ELSE Min(n, Len(s))
    IN  SubSeq(s, 1, stop)

\* --------------------------------------------------------- weight mappings
\* A weight mapping is a Python dict: a sequence of [feature, weight]
\* entries with distinct features, in insertion (iteration) order.
CanonicalFeatures ==
    <<"population", "business_density", "rent_price", "competition", "transportation">>

WKeys(weights) == {weights[i].feature : i \in 1..Len(weights)}

WGet(weights, feature) ==
    LET i == CHOOSE j \in 1..Len(weights) : weights[j].feature = feature
    IN  weights[i].weight

\* ------------------------------------------------------- feature extractor
\* The normaliser without its clamp.
_normalize_value_unclamped(value, min_val, max_val, inverse) ==
    IF max_val = min_val THEN FeatureOne \div 2
    ELSE LET raw == ((value - min_val) * FeatureOne) \div (max_val - min_val)
         IN  IF inverse THEN FeatureOne - raw ELSE raw

\* AnalysisService._normalize_value
_normalize_value(value, min_val, max_val, inverse) ==
    IF max_val = min_val THEN FeatureOne \div 2
    ELSE LET raw == ((value - min_val) * FeatureOne) \div (max_val - min_val)
             normalized == Max(0, Min(FeatureOne, raw))
         IN  IF inverse THEN FeatureOne - normalized ELSE normalized

\* hasattr(area, 'floating_population')
HasFloatingPopulation(area) == "floating_population" \in DOMAIN area

\* AnalysisService._extract_features
_extract_features(area) ==
    LET base ==
            [feature \in Range(CanonicalFeatures) |->
                CASE feature = "population" ->
                        _normalize_value(OrZero(area.population_density), 0, 50000, FALSE)
                  [] feature = "business_density" ->
                        _normalize_value(OrZero(area.business_density), 0, 100, FALSE)
                  [] feature = "rent_price" ->
                        _normalize_value(OrZero(area.rent_price), 0, 5000000, TRUE)
                  [] feature = "competition" ->
                        _normalize_value(OrZero(area.competitor_count), 0, 20, TRUE)
                  [] OTHER ->
                        _normalize_value(OrZero(area.transportation_score), 0, 100, FALSE)]
    IN  IF HasFloatingPopulation(area)
        THEN [feature \in Range(CanonicalFeatures) \cup {"floating_population"} |->
                IF feature = "floating_population"
                THEN _normalize_value(OrZero(area.floating_population), 0, 100000, FALSE)
                ELSE base[feature]]
        ELSE base

\* ------------------------------------------------------- similarity scorer
\* The features the scoring loop visits: common to both vectors and weighted.
ScoredFeatures(reference_features, location_features, weights) ==
    (DOMAIN reference_features \cap DOMAIN location_features) \cap WKeys(weights)

\* The distance taken without abs().
FeatureSimilarity_signed(reference_features, location_features, feature) ==
    FeatureOne - (reference_features[feature] - location_features[feature])

\* The distance itself taken for the similarity.
FeatureSimilarity_distance(reference_features, location_features, feature) ==
    Abs(reference_features[feature] - location_features[feature])

\* feature_similarity = 1 - abs(reference - location)
FeatureSimilarity(reference_features, location_features, feature) ==
    FeatureOne - Abs(reference_features[feature] - location_features[feature])

\* The sum over the weighted features of either vector, a value missing
\* from one of them taken as 0.
RawSimilarity_missing_as_zero(reference_features, location_features, weights) ==
    LET S == (DOMAIN reference_features \cup DOMAIN location_features) \cap WKeys(weights)
        Value(features, feature) ==
            IF feature \in DOMAIN features THEN features[feature] ELSE 0
        term == [feature \in S |->
                    (FeatureOne - Abs(Value(reference_features, feature)
                                        - Value(location_features, feature)))
                        * WGet(weights, feature)]
    IN  SumOver(S, term)

\* The accumulated sum of _calculate_similarity before the final clamp.
RawSimilarity(reference_features, location_features, weights) ==
    LET S == ScoredFeatures(reference_features, location_features, weights)
        term == [feature \in S |->
                    FeatureSimilarity(reference_features, location_features, feature)
                        * WGet(weights, feature)]
    IN  SumOver(S, term)

\* The accumulated sum returned as it is.
ClampScore_none(similarity_score) == similarity_score

\* min(1.0, max(0.0, similarity_score))
ClampScore(similarity_score) == Min(ScoreOne, Max(0, similarity_score))

\* AnalysisService._calculate_similarity
_calculate_similarity(reference_features, location_features, weights) ==
    ClampScore(RawSimilarity(reference_features, location_features, weights))

\* ------------------------------------------------------- reason generator
\* The test with the weight compared inclusively.
ReasonQualifies_inclusive(similarity, weight) ==
    similarity > (8 * FeatureOne) \div 10 /\ weight >= (15 * WeightOne) \div 100

\* The test with the similarity compared inclusively.
ReasonQualifies_similar_inclusive(similarity, weight) ==
    similarity >= (8 * FeatureOne) \div 10 /\ weight > (15 * WeightOne) \div 100

\* similarity > 0.8 and weight > 0.15
ReasonQualifies(similarity, weight) ==
    similarity > (8 * FeatureOne) \div 10 /\ weight > (15 * WeightOne) \div 100

RECURSIVE ReasonClauses(_, _, _, _)
\* The clauses of _generate_reason for the weight entries from index i on,
\* each clause named by its feature.
ReasonClauses(reference_features, location_features, weights, i) ==
    IF i > Len(weights) THEN <<>>
    ELSE LET feature == weights[i].feature
             rest == ReasonClauses(reference_features, location_features, weights, i + 1)
         IN  IF /\ feature \in DOMAIN reference_features
                /\ feature \in DOMAIN location_features
                /\ ReasonQualifies(
                       FeatureSimilarity(reference_features, location_features, feature),
                       weights[i].weight)
             THEN <<feature>> \o rest
             ELSE rest

\* AnalysisService._generate_reason: the clauses that ", ".join() joins.
_generate_reason(reference_features, location_features, weights) ==
    LET reasons == ReasonClauses(reference_features, location_features, weights, 1)
    IN  IF reasons = <<>> THEN <<"overall">> ELSE reasons

\* ----------------------------------------------------------------- sorting
RECURSIVE InsertDesc(_, _, _)
\* Index x placed in the sequence of indices order, which is descending by
\* keys, behind every index whose key is >= its own (what a stable
\* descending sort does with the next element).
InsertDesc(order, x, keys) ==
    IF order = <<>> THEN <<x>>
    ELSE IF keys[Head(order)] >= keys[x]
         THEN <<Head(order)>> \o InsertDesc(Tail(order), x, keys)
         ELSE <<x>> \o order

RECURSIVE SortedOrder(_, _, _)
SortedOrder(keys, i, order) ==
    IF i > Len(keys) THEN order
    ELSE SortedOrder(keys, i + 1, InsertDesc(order, i, keys))

\* list.sort(key=..., reverse=True) of s, keys[i] being the key of s[i]:
\* stable, descending by key.
SortDesc(s, keys) ==
    LET order == SortedOrder(keys, 1, <<>>)
    IN  [i \in 1..Len(s) |-> s[order[i]]]

\* ------------------------------------------------------------ top factors
\* The tags with the thresholds compared inclusively.
Impact_inclusive(weight) ==
    IF weight >= (25 * WeightOne) \div 100 THEN "high"
    ELSE IF weight >= (15 * WeightOne) \div 100 THEN "medium"
    ELSE "low"

\* 'high' if weight > 0.25 else 'medium' if weight > 0.15 else 'low'
Impact(weight) ==
    IF weight > (25 * WeightOne) \div 100 THEN "high"
    ELSE IF weight > (15 * WeightOne) \div 100 THEN "medium"
    ELSE "low"

\* AnalysisService._analyze_top_factors
_analyze_top_factors(weights) ==
    LET sorted_weights == SliceTo(SortDesc(weights, [i \in 1..Len(weights) |-> weights[i].weight]), 3)
    IN  [i \in 1..Len(sorted_weights) |->
            [factor |-> sorted_weights[i].feature,
             weight |-> sorted_weights[i].weight,
             impact |-> Impact(sorted_weights[i].weight)]]

\* ------------------------------------------------------------------ state
VARIABLES
    \* reference_areas table: id -> row
    reference_areas,
    \* location_data table: rows in the order a query returns them
    location_data,
    \* analysis_conditions table: row i has id i
    analysis_conditions,
    \* recommendation_results table: committed rows, oldest first
    recommendation_results,
    \* what the last request handler returned (or raised)
    response,
    \* the last direct call of a pure function of AnalysisService
    call

vars ==
    <<reference_areas, location_data, analysis_conditions, recommendation_results,
      response, call>>

\* ------------------------------------------------------------------- data
\* The reference of the end-to-end scenario: no business density supplied.
\* Features (0.50, 0.00, 0.90, 0.75, 0.80).
ReferenceA ==
    [population_density |-> Some(25000), business_density |-> None,
     rent_price |-> Some(500000), competitor_count |-> Some(5),
     transportation_score |-> Some(80)]

\* A reference at the top of every range.  Features (1, 1, 1, 1, 1).
ReferenceB ==
    [population_density |-> Some(50000), business_density |-> Some(100),
     rent_price |-> Some(0), competitor_count |-> Some(0),
     transportation_score |-> Some(100)]

ReferenceRows == <<ReferenceA, ReferenceB>>

Location(id, sido, population_total, attributes, floating_population) ==
    [id |-> id, sido |-> sido, population_total |-> population_total,
     population_density |-> attributes[1], business_density |-> attributes[2],
     rent_price |-> attributes[3], competitor_count |-> attributes[4],
     transportation_score |-> attributes[5],
     floating_population |-> floating_population]

\* The location rows a table is drawn from.
\*   1: the attributes of ReferenceA
\*   2: features (0, 0, 1, 1, 1): exactly 0.5 from ReferenceB under the default weights
\*   3: the attributes of ReferenceB
\*   4: missing values, rent and competitors at the top of their ranges
LocationRows ==
    <<Location(1, "Seoul", Some(20000),
               <<Some(25000), None, Some(500000), Some(5), Some(80)>>, Some(50000)),
      Location(2, "Busan", Some(15000),
               <<Some(0), Some(0), Some(0), Some(0), Some(100)>>, Some(0)),
      Location(3, "Seoul", Some(50000),
               <<Some(50000), Some(100), Some(0), Some(0), Some(100)>>, Some(100000)),
      Location(4, "Daegu", None,
               <<None, Some(50), Some(5000000), Some(20), None>>, None)>>

\* Sequences of distinct elements of S, at most n long.
DistinctSeqs(S, n) ==
    {q \in UNION {[1..k -> S] : k \in 0..n} :
        \A i, j \in 1..Len(q) : i # j => q[i] # q[j]}

LocationTables ==
    {[i \in 1..Len(q) |-> LocationRows[q[i]]] :
        q \in DistinctSeqs(1..Len(LocationRows), Min(MaxLocations, Len(LocationRows)))}

NoResponse == [op |-> "none", status |-> 0]
NoCall == [op |-> "none"]

\* --------------------------------------------------- analysis conditions
WeightFields ==
    <<"weight_population", "weight_business_density", "weight_rent_price",
      "weight_competition", "weight_transportation">>

\* The five weights of a condition row or request, in field order.
WeightsOf(condition) == [i \in 1..Len(WeightFields) |-> condition[WeightFields[i]]]

SumSeq(s) == SumOver(1..Len(s), s)

\* The sum check with a tolerance of 0.01.
WeightSumValid_loose(total_weight) == ~(Abs(total_weight - WeightOne) > 10)

\* not (abs(total_weight - 1.0) > 0.001)
WeightSumValid(total_weight) == ~(Abs(total_weight - WeightOne) > 1)

\* A weight as a Decimal(3, 2) column keeps it: two decimal places, the
\* third rounded half away from zero.
StoreWeight(weight) ==
    IF weight >= 0 THEN ((weight + 5) \div 10) * 10
    ELSE -(((-weight) + 5) \div 10) * 10

\* The value a column keeps of the value assigned to it.
StoreField(key, value) ==
    IF key \in Range(WeightFields) THEN StoreWeight(value) ELSE value

\* The row create_analysis_condition adds (is_active by the column default).
NewCondition(condition) ==
    [key \in DOMAIN condition \cup {"is_active"} |->
        IF key = "is_active" THEN TRUE ELSE StoreField(key, condition[key])]

\* update_data.get(key, db_condition.<key>)
UpdateGet(update_data, db_condition, key) ==
    IF key \in DOMAIN update_data THEN update_data[key] ELSE db_condition[key]

\* The weights update_analysis_condition sums.
UpdateWeights(update_data, db_condition) ==
    [i \in 1..Len(WeightFields) |-> UpdateGet(update_data, db_condition, WeightFields[i])]

\* for key, value in update_data.items(): setattr(db_condition, key, value)
ApplyUpdate(db_condition, update_data) ==
    [key \in DOMAIN db_condition |->
        IF key \in DOMAIN update_data
        THEN StoreField(key, update_data[key])
        ELSE db_condition[key]]

\* The handler's response goes out to the caller; the next request is
\* handled after it.
SendResponse ==
    /\ response # NoResponse
    /\ response' = NoResponse
    /\ UNCHANGED <<reference_areas, location_data, analysis_conditions,
                   recommendation_results, call>>

\* POST /conditions
create_analysis_condition(condition) ==
    /\ response = NoResponse
    /\ Len(analysis_conditions) < MaxConditions
    /\ IF ~WeightSumValid(SumSeq(WeightsOf(condition)))
       THEN /\ response' = [op |-> "create_analysis_condition", status |-> 400,
                            request |-> condition]
            /\ UNCHANGED analysis_conditions
       ELSE /\ analysis_conditions' = Append(analysis_conditions, NewCondition(condition))
            /\ response' = [op |-> "create_analysis_condition", status |-> 200,
                            request |-> condition,
                            condition_id |-> Len(analysis_conditions) + 1]
    /\ UNCHANGED <<reference_areas, location_data, recommendation_results, call>>

\* PUT /conditions/{condition_id}
update_analysis_condition(condition_id, update_data) ==
    LET request == [condition_id |-> condition_id, update_data |-> update_data]
    IN  /\ response = NoResponse
        /\ IF condition_id \notin DOMAIN analysis_conditions
           THEN /\ response' = [op |-> "update_analysis_condition", status |-> 404,
                                request |-> request]
                /\ UNCHANGED analysis_conditions
           ELSE LET db_condition == analysis_conditions[condition_id]
                IN  IF ~WeightSumValid(SumSeq(UpdateWeights(update_data, db_condition)))
                    THEN /\ response' = [op |-> "update_analysis_condition",
                                         status |-> 400, request |-> request]
                         /\ UNCHANGED analysis_conditions
                    ELSE /\ analysis_conditions' =
                                [analysis_conditions EXCEPT
                                    ![condition_id] = ApplyUpdate(db_condition, update_data)]
                         /\ response' = [op |-> "update_analysis_condition",
                                         status |-> 200, request |-> request]
        /\ UNCHANGED <<reference_areas, location_data, recommendation_results, call>>

\* -------------------------------------------------------- weight resolver
\* `if custom_weights:` -- None and the empty dict are both falsy.
CustomWeightsGiven(custom_weights) == custom_weights # None /\ custom_weights[1] # <<>>

\* The dict _get_weights builds from a condition row.
ConditionWeights(analysis_condition) ==
    [i \in 1..Len(CanonicalFeatures) |->
        [feature |-> CanonicalFeatures[i],
         weight |-> analysis_condition[WeightFields[i]]]]

\* The resolver ignoring the override.
_get_weights_condition(analysis_condition, custom_weights) ==
    ConditionWeights(analysis_condition)

\* AnalysisService._get_weights
_get_weights(analysis_condition, custom_weights) ==
    IF CustomWeightsGiven(custom_weights)
    THEN custom_weights[1]
    ELSE ConditionWeights(analysis_condition)

\* ------------------------------------------------------- candidate filter
\* attribute >= bound in SQL: a NULL attribute never satisfies it.
SqlGe(attribute, bound) == attribute # None /\ attribute[1] >= bound
SqlLe(attribute, bound) == attribute # None /\ attribute[1] <= bound

\* `if analysis_condition.<threshold>:` -- 0 is falsy.
ThresholdSet(threshold) == threshold # 0

\* The WHERE clause _get_candidate_locations builds.
PassesFilters(location, analysis_condition) ==
    /\ ThresholdSet(analysis_condition.min_population)
        => SqlGe(location.population_total, analysis_condition.min_population)
    /\ ThresholdSet(analysis_condition.max_rent_price)
        => SqlLe(location.rent_price, analysis_condition.max_rent_price)
    /\ ThresholdSet(analysis_condition.max_competitor_count)
        => SqlLe(location.competitor_count, analysis_condition.max_competitor_count)

\* The query leaving out the locations already recommended.
_get_candidate_locations_unrecommended(analysis_condition) ==
    LET Keep(location) ==
            /\ PassesFilters(location, analysis_condition)
            /\ \A i \in DOMAIN recommendation_results :
                  recommendation_results[i].recommended_location_id # location.id
    IN  SelectSeq(location_data, Keep)

\* The query without its filters.
_get_candidate_locations_unfiltered(analysis_condition) == location_data

\* AnalysisService._get_candidate_locations
_get_candidate_locations(analysis_condition) ==
    LET Keep(location) == PassesFilters(location, analysis_condition)
    IN  SelectSeq(location_data, Keep)

\* ------------------------------------------------ ranking and assembly
\* The gate with the comparison made inclusive.
MeetsThreshold_inclusive(similarity_score) == similarity_score >= ScoreOne \div 2

\* if similarity_score > 0.5
MeetsThreshold(similarity_score) == similarity_score > ScoreOne \div 2

\* The entry the scoring loop appends for one location.
Candidate(reference_features, location, weights) ==
    LET location_features == _extract_features(location)
    IN  [location_id |-> location.id,
         similarity_score |->
            _calculate_similarity(reference_features, location_features, weights),
         reason |-> _generate_reason(reference_features, location_features, weights)]

\* The scoring loop run over the pool a second time.
Survivors_pool_twice(reference_features, candidate_locations, weights) ==
    LET twice == candidate_locations \o candidate_locations
        scored == [i \in 1..Len(twice) |->
                      Candidate(reference_features, twice[i], weights)]
        Kept(candidate) == MeetsThreshold(candidate.similarity_score)
    IN  SelectSeq(scored, Kept)

\* The list `similarities` when the scoring loop ends.
Survivors(reference_features, candidate_locations, weights) ==
    LET scored == [i \in 1..Len(candidate_locations) |->
                      Candidate(reference_features, candidate_locations[i], weights)]
        Kept(candidate) == MeetsThreshold(candidate.similarity_score)
    IN  SelectSeq(scored, Kept)

\* The list left in the order of the scoring loop.
SortSimilarities_unsorted(similarities) == similarities

\* The list sorted ascending and then reversed: equal scores end up in the
\* opposite of their order in the list.
SortSimilarities_ascending_reversed(similarities) ==
    LET n == Len(similarities)
        reversed == [i \in 1..n |-> similarities[n + 1 - i]]
    IN  SortDesc(reversed, [i \in 1..n |-> reversed[i].similarity_score])

\* similarities.sort(key=lambda x: x['similarity_score'], reverse=True)
SortSimilarities(similarities) ==
    SortDesc(similarities,
             [i \in 1..Len(similarities) |-> similarities[i].similarity_score])

\* The analysis counting the candidates that passed the threshold.
analyze_similarity_counting_survivors(reference_area, analysis_condition, custom_weights, max_results) ==
    LET weights == _get_weights(analysis_condition, custom_weights)
        reference_features == _extract_features(reference_area)
        candidate_locations == _get_candidate_locations(analysis_condition)
        similarities == Survivors(reference_features, candidate_locations, weights)
    IN  [candidates |-> SortSimilarities(similarities),
         weights |-> weights,
         total_candidates |-> Len(similarities),
         top_factors |-> _analyze_top_factors(weights)]

\* AnalysisService.analyze_similarity, for an analysis_condition that is a row.
analyze_similarity(reference_area, analysis_condition, custom_weights, max_results) ==
    LET weights == _get_weights(analysis_condition, custom_weights)
        reference_features == _extract_features(reference_area)
        candidate_locations == _get_candidate_locations(analysis_condition)
        similarities == Survivors(reference_features, candidate_locations, weights)
    IN  [candidates |-> SortSimilarities(similarities),
         weights |-> weights,
         total_candidates |-> Len(candidate_locations),
         top_factors |-> _analyze_top_factors(weights)]

\* --------------------------------------------------------- recommendations
\* A score as the Decimal(5, 4) column keeps it: four decimal places.
StoreScore(similarity_score) == ((similarity_score + 5) \div 10) * 10

\* The row RecommendationService.create_recommendation adds and commits.
NewRecommendation(reference_area_id, result, priority_rank) ==
    [reference_area_id |-> reference_area_id,
     recommended_location_id |-> result.location_id,
     similarity_score |-> StoreScore(result.similarity_score),
     recommendation_reason |-> result.reason,
     priority_rank |-> priority_rank]

\* analysis_results['candidates'][:request.max_results]
ToPersist(candidates, max_results) == SliceTo(candidates, max_results)

\* The persisting loop ranking from 0.
RunRecommendations_zero_based(request, candidates) ==
    LET chosen == ToPersist(candidates, request.max_results)
    IN  [i \in 1..Len(chosen) |->
            NewRecommendation(request.reference_area_id, chosen[i], i - 1)]

\* The persisting loop ranking after the rows already in the table.
RunRecommendations_ranked_after_table(request, candidates) ==
    LET chosen == ToPersist(candidates, request.max_results)
    IN  [i \in 1..Len(chosen) |->
            NewRecommendation(request.reference_area_id, chosen[i],
                              Len(recommendation_results) + i)]

\* The rows of the persisting loop of run_analysis, in the order it commits them.
RunRecommendations(request, candidates) ==
    LET chosen == ToPersist(candidates, request.max_results)
    IN  [i \in 1..Len(chosen) |->
            NewRecommendation(request.reference_area_id, chosen[i], i)]

\* The rows committed when the commit of row commit_fails_at raises
\* (0: no commit raises): each create_recommendation commits its own row.
Committed(rows, commit_fails_at) ==
    IF commit_fails_at \in 1..Len(rows)
    THEN SubSeq(rows, 1, commit_fails_at - 1)
    ELSE rows

\* The default query without its is_active filter.
ActiveConditions_any == DOMAIN analysis_conditions

\* The conditions the query for the default condition may return first.
ActiveConditions == {i \in DOMAIN analysis_conditions : analysis_conditions[i].is_active}

\* The response of a run that raised inside the try block.
AnalysisFailure(request, analysis_results) ==
    [op |-> "run_analysis", status |-> 500, request |-> request,
     analysis_results |-> analysis_results]

\* The not-found condition caught by the handler's `except Exception`.
NotFound_caught(request) ==
    [op |-> "run_analysis", status |-> 500, request |-> request,
     analysis_results |-> None]

\* The response of a run stopped by a missing reference or condition.
NotFound(request) ==
    [op |-> "run_analysis", status |-> 404, request |-> request,
     analysis_results |-> None]

\* The AnalysisResponse of a run that reached its return.
AnalysisResponse(request, analysis_results, rows) ==
    [op |-> "run_analysis", status |-> 200, request |-> request,
     analysis_results |-> Some(analysis_results),
     recommendations |-> rows,
     total_candidates |-> analysis_results.total_candidates]

\* POST /run once reference and condition are resolved: the try block.
\* analysis_condition is None or Some(row).  The commit of any one row may
\* raise (commit_fails_at); 0 stands for no commit raising.
RunResolved(request, reference_area, analysis_condition) ==
    IF analysis_condition = None
    THEN \* analyze_similarity dereferences None
         /\ response' = AnalysisFailure(request, None)
         /\ UNCHANGED recommendation_results
    ELSE \E analysis_results \in
                {analyze_similarity(reference_area, analysis_condition[1],
                                    request.custom_weights, request.max_results)} :
         \E rows \in {RunRecommendations(request, analysis_results.candidates)} :
            /\ Len(recommendation_results) + Len(rows) <= MaxRecommendations
            /\ \E commit_fails_at \in 0..Len(rows) :
                /\ recommendation_results' =
                        recommendation_results \o Committed(rows, commit_fails_at)
                /\ response' =
                        IF commit_fails_at # 0
                        THEN AnalysisFailure(request, Some(analysis_results))
                        ELSE AnalysisResponse(request, analysis_results, rows)

\* POST /run
run_analysis(request) ==
    /\ response = NoResponse
    /\ IF request.reference_area_id \notin DOMAIN reference_areas
       THEN /\ response' = NotFound(request)
            /\ UNCHANGED recommendation_results
       ELSE LET reference_area == reference_areas[request.reference_area_id]
            IN  IF request.analysis_condition_id # None
                THEN IF request.analysis_condition_id[1] \notin DOMAIN analysis_conditions
                     THEN /\ response' = NotFound(request)
                          /\ UNCHANGED recommendation_results
                     ELSE RunResolved(request, reference_area,
                              Some(analysis_conditions[request.analysis_condition_id[1]]))
                ELSE IF ActiveConditions = {}
                     THEN RunResolved(request, reference_area, None)
                     ELSE \E i \in ActiveConditions :
                              RunResolved(request, reference_area,
                                          Some(analysis_conditions[i]))
    /\ UNCHANGED <<reference_areas, location_data, analysis_conditions, call>>

\* ----------------------------------------------------------------- inputs
\* A dict of weights from its entries <<feature, weight>>.
Weights(entries) ==
    [i \in 1..Len(entries) |-> [feature |-> entries[i][1], weight |-> entries[i][2]]]

\* request.custom_weights of the requests of Spec: absent, empty, and two
\* weights with a third decimal place.
RunCustomWeights ==
    {None, Some(<<>>),
     Some(Weights(<<<<"rent_price", 555>>, <<"competition", 333>>>>))}

MaxResultsChoices == {-1, 0, 1, 10}

RunRequests ==
    [reference_area_id : 1..(Len(ReferenceRows) + 1),
     analysis_condition_id : {None} \cup {Some(i) : i \in 1..(MaxConditions + 1)},
     custom_weights : RunCustomWeights,
     max_results : MaxResultsChoices]

\* The request body of POST /conditions (schema defaults filled in).
ConditionRequest(name, weights, thresholds) ==
    [name |-> name,
     weight_population |-> weights[1], weight_business_density |-> weights[2],
     weight_rent_price |-> weights[3], weight_competition |-> weights[4],
     weight_transportation |-> weights[5],
     min_population |-> thresholds[1], max_rent_price |-> thresholds[2],
     max_competitor_count |-> thresholds[3]]

\* The schema defaults.
DefaultWeights == <<250, 250, 200, 150, 150>>
DefaultThresholds == <<10000, 1000000, 10>>

\* Create requests of Spec: the defaults, thresholds of 0, and the rejected
\* example (0.3, 0.3, 0.3, 0.3, 0.3).
CreateRequests ==
    {ConditionRequest("standard", DefaultWeights, DefaultThresholds),
     ConditionRequest("standard", DefaultWeights, <<0, 5000000, 0>>),
     ConditionRequest("standard", <<300, 300, 300, 300, 300>>, DefaultThresholds)}

\* update_data of the update requests of Spec: the fields the request sets.
UpdateChoices ==
    {[is_active |-> FALSE],
     [weight_population |-> 300]}

\* The location tables of Spec, as the rows a query returns, in its order:
\* empty; one row the default thresholds exclude; two and three rows that
\* pass them; all four rows.
RunTableChoices ==
    {<<>>, <<4>>, <<1, 3>>, <<2, 1, 3>>, <<4, 1, 2, 3>>}

RunTables ==
    {[i \in 1..Len(t) |-> LocationRows[t[i]]] :
        t \in {c \in RunTableChoices : Len(c) <= MaxLocations}}

\* ------------------------------------------------------------------- next
Init ==
    /\ reference_areas = ReferenceRows
    /\ location_data \in RunTables
    /\ analysis_conditions = <<>>
    /\ recommendation_results = <<>>
    /\ response = NoResponse
    /\ call = NoCall

CreateCondition == \E condition \in CreateRequests : create_analysis_condition(condition)

UpdateCondition ==
    \E condition_id \in 1..(MaxConditions + 1), update_data \in UpdateChoices :
        update_analysis_condition(condition_id, update_data)

RunAnalysis == \E request \in RunRequests : run_analysis(request)

Next == CreateCondition \/ UpdateCondition \/ RunAnalysis \/ SendResponse

Spec == Init /\ [][Next]_vars

\* ------------------------------------------- direct calls of the analysis
\* request.custom_weights / custom_weights arguments: absent, empty, summing
\* to 1.0, above it, below it, and on a feature only locations have.
CustomWeightChoices ==
    {None,
     Some(<<>>),
     Some(Weights(<<<<"population", 1000>>>>)),
     Some(Weights(<<<<"rent_price", 600>>, <<"competition", 600>>>>)),
     Some(Weights(<<<<"transportation", 200>>, <<"population", 200>>>>)),
     Some(Weights(<<<<"floating_population", 700>>, <<"business_density", 300>>>>))}

\* Weights of create requests that pass the sum check.
AcceptedWeightChoices ==
    {DefaultWeights, <<334, 333, 333, 0, 0>>, <<0, 0, 500, 0, 500>>}

\* Condition rows as create_analysis_condition stores them: the default
\* thresholds, thresholds of 0, and a min_population that excludes a
\* location scoring above the threshold.
ConditionRows ==
    {NewCondition(ConditionRequest("standard", w, t)) :
        w \in AcceptedWeightChoices,
        t \in {DefaultThresholds, <<0, 5000000, 0>>, <<20000, 1000000, 10>>}}

AnalyzeCalls ==
    [op : {"analyze_similarity"},
     reference_area : Range(ReferenceRows),
     analysis_condition : ConditionRows,
     custom_weights : CustomWeightChoices,
     max_results : {1, 10},
     done : {FALSE}]

InitAnalyze ==
    /\ reference_areas = ReferenceRows
    /\ location_data \in LocationTables
    /\ analysis_conditions = <<>>
    /\ recommendation_results = <<>>
    /\ response = NoResponse
    /\ call \in AnalyzeCalls

\* One direct call of AnalysisService.analyze_similarity.
Analyze ==
    /\ call.op = "analyze_similarity"
    /\ ~call.done
    /\ call' = [op |-> call.op, reference_area |-> call.reference_area,
                analysis_condition |-> call.analysis_condition,
                custom_weights |-> call.custom_weights,
                max_results |-> call.max_results, done |-> TRUE,
                result |-> analyze_similarity(call.reference_area, call.analysis_condition,
                                              call.custom_weights, call.max_results)]
    /\ UNCHANGED <<reference_areas, location_data, analysis_conditions,
                   recommendation_results, response>>

\* The rows run_analysis persists of the result of the call, for the
\* reference of the call.
PersistResult ==
    /\ call.op = "analyze_similarity"
    /\ call.done
    /\ "again" \notin DOMAIN call
    /\ recommendation_results = <<>>
    /\ LET reference_area_id ==
               CHOOSE i \in DOMAIN reference_areas : reference_areas[i] = call.reference_area
           rows == RunRecommendations([reference_area_id |-> reference_area_id,
                                       max_results |-> call.max_results],
                                      call.result.candidates)
       IN  /\ rows # <<>>
           /\ recommendation_results' = rows
    /\ UNCHANGED <<reference_areas, location_data, analysis_conditions, response, call>>

\* A second call of analyze_similarity with the arguments of the first, on
\* the same location table.
AnalyzeAgain ==
    /\ call.op = "analyze_similarity"
    /\ call.done
    /\ "again" \notin DOMAIN call
    /\ call' = [key \in DOMAIN call \cup {"again"} |->
                  IF key = "again"
                  THEN analyze_similarity(call.reference_area, call.analysis_condition,
                                          call.custom_weights, call.max_results)
                  ELSE call[key]]
    /\ UNCHANGED <<reference_areas, location_data, analysis_conditions,
                   recommendation_results, response>>

NextAnalyze == Analyze \/ PersistResult \/ AnalyzeAgain

SpecAnalyze == InitAnalyze /\ [][NextAnalyze]_vars

\* -------------------------------------------- direct calls of the scorer
\* Feature names and values of the vectors handed to _calculate_similarity.
ScorerFeatures == {"population", "rent_price", "floating_population"}
ScorerValues == {0, 30, 100}

\* Feature vectors over any subset of the names.
FeatureVectors == UNION {[keys -> ScorerValues] : keys \in SUBSET ScorerFeatures}

\* Weight vectors: empty, summing to 1.0, below and above it, negative,
\* and on a feature no vector has.
ScorerWeights ==
    {<<>>,
     Weights(<<<<"population", 1000>>>>),
     Weights(<<<<"population", 500>>, <<"rent_price", 500>>>>),
     Weights(<<<<"rent_price", 200>>, <<"floating_population", 200>>>>),
     Weights(<<<<"population", 900>>, <<"rent_price", 900>>>>),
     Weights(<<<<"population", -500>>, <<"rent_price", 300>>>>),
     Weights(<<<<"transportation", 1000>>, <<"population", 400>>>>)}

SimilarityCalls ==
    [op : {"_calculate_similarity"},
     reference_features : FeatureVectors,
     location_features : FeatureVectors,
     weights : ScorerWeights,
     done : {FALSE}]

InitSimilarity ==
    /\ reference_areas = ReferenceRows
    /\ location_data = <<>>
    /\ analysis_conditions = <<>>
    /\ recommendation_results = <<>>
    /\ response = NoResponse
    /\ call \in SimilarityCalls

\* One direct call of AnalysisService._calculate_similarity (raw: its
\* similarity_score when the loop ends), and the call with the two vectors
\* swapped.
CalculateSimilarity ==
    /\ call.op = "_calculate_similarity"
    /\ ~call.done
    /\ call' = [op |-> call.op, reference_features |-> call.reference_features,
                location_features |-> call.location_features,
                weights |-> call.weights, done |-> TRUE,
                raw |-> RawSimilarity(call.reference_features,
                                      call.location_features, call.weights),
                result |-> _calculate_similarity(call.reference_features,
                                                 call.location_features, call.weights),
                swapped |-> _calculate_similarity(call.location_features,
                                                  call.reference_features, call.weights)]
    /\ UNCHANGED <<reference_areas, location_data, analysis_conditions,
                   recommendation_results, response>>

SpecSimilarity == InitSimilarity /\ [][CalculateSimilarity]_vars

\* -------------------------------------- the condition endpoints on their own
\* Weights of create requests: the defaults; the rejected example
\* (0.3, 0.3, 0.3, 0.3, 0.3); sums of 1.000 with third decimals; sums of
\* 0.998, 0.999, 1.001 and 1.002; a negative weight in a sum of 1.0.
CreateWeightChoices ==
    {DefaultWeights,
     <<300, 300, 300, 300, 300>>,
     <<334, 333, 333, 0, 0>>,
     <<248, 250, 200, 150, 150>>,
     <<249, 250, 200, 150, 150>>,
     <<251, 250, 200, 150, 150>>,
     <<252, 250, 200, 150, 150>>,
     <<-500, 500, 500, 250, 250>>}

ConditionCreateRequests ==
    {ConditionRequest("standard", w, t) :
        w \in CreateWeightChoices, t \in {DefaultThresholds, <<0, 5000000, 0>>}}

\* update_data of update requests: any subset of the fields.
ConditionUpdateChoices ==
    {[is_active |-> FALSE],
     [is_active |-> TRUE, name |-> "renamed"],
     [weight_competition |-> 200, weight_transportation |-> 100],
     [weight_population |-> 300],
     [weight_population |-> 300, max_competitor_count |-> 5, name |-> "renamed",
      is_active |-> FALSE],
     [weight_population |-> 246, weight_business_density |-> 254],
     [weight_population |-> 251],
     [weight_competition |-> 5, weight_transportation |-> 5],
     [weight_population |-> 200, weight_business_density |-> 200,
      weight_rent_price |-> 200, weight_competition |-> 200,
      weight_transportation |-> 200],
     [max_rent_price |-> 0, min_population |-> 20000]}

InitConditions ==
    /\ reference_areas = ReferenceRows
    /\ location_data = <<>>
    /\ analysis_conditions = <<>>
    /\ recommendation_results = <<>>
    /\ response = NoResponse
    /\ call = NoCall

CreateAnyCondition ==
    \E condition \in ConditionCreateRequests : create_analysis_condition(condition)

UpdateAnyCondition ==
    \E condition_id \in 1..(MaxConditions + 1), update_data \in ConditionUpdateChoices :
        update_analysis_condition(condition_id, update_data)

NextConditions == CreateAnyCondition \/ UpdateAnyCondition \/ SendResponse

SpecConditions == InitConditions /\ [][NextConditions]_vars

\* ------------------------------------ direct calls of the candidate filter
\* Thresholds of the configurations handed to _get_candidate_locations:
\* each one at 0, at a value some rows pass, and at the top of its range.
ThresholdChoices ==
    {<<p, r, c>> : p \in {0, 10000, 20000}, r \in {0, 500000, 5000000}, c \in {0, 5, 20}}

CandidateCalls ==
    [op : {"_get_candidate_locations"},
     analysis_condition :
        {NewCondition(ConditionRequest("standard", DefaultWeights, t)) :
            t \in ThresholdChoices},
     done : {FALSE}]

InitCandidates ==
    /\ reference_areas = ReferenceRows
    /\ location_data \in LocationTables
    /\ analysis_conditions = <<>>
    /\ recommendation_results = <<>>
    /\ response = NoResponse
    /\ call \in CandidateCalls

\* One direct call of AnalysisService._get_candidate_locations.
GetCandidateLocations ==
    /\ call.op = "_get_candidate_locations"
    /\ ~call.done
    /\ call' = [op |-> call.op, analysis_condition |-> call.analysis_condition,
                done |-> TRUE,
                result |-> _get_candidate_locations(call.analysis_condition)]
    /\ UNCHANGED <<reference_areas, location_data, analysis_conditions,
                   recommendation_results, response>>

SpecCandidates == InitCandidates /\ [][GetCandidateLocations]_vars

\* ------------------------------------------------------ filter properties
CandidatesDone == call.op = "_get_candidate_locations" /\ call.done

\* The record satisfies all three constraints of the call's configuration,
\* each of which holds a value (a NULL attribute satisfies no comparison).
SatisfiesEveryConstraint(location) ==
    /\ location.population_total # None
    /\ location.population_total[1] >= call.analysis_condition.min_population
    /\ location.rent_price # None
    /\ location.rent_price[1] <= call.analysis_condition.max_rent_price
    /\ location.competitor_count # None
    /\ location.competitor_count[1] <= call.analysis_condition.max_competitor_count

\* C11: the pool _get_candidate_locations returns is exactly the set of
\* location records satisfying every constraint that is set, a threshold of
\* 0 included.
C11_PoolSatisfiesSetConstraints ==
    CandidatesDone =>
        Range(call.result) = {location \in Range(location_data) :
                                 SatisfiesEveryConstraint(location)}

\* -------------------------------------- direct calls of the feature extractor
\* The attributes _extract_features reads without a hasattr() guard.
ReadAttributes ==
    {"population_density", "business_density", "rent_price", "competitor_count",
     "transportation_score"}

\* `area.<attribute>` raises AttributeError on an object without the attribute.
ExtractRaises(area) == \E attribute \in ReadAttributes : attribute \notin DOMAIN area

\* What a call of _extract_features ends in: the features, or the exception.
ExtractOutcome(area) ==
    IF ExtractRaises(area)
    THEN [raised |-> TRUE]
    ELSE [raised |-> FALSE, features |-> _extract_features(area)]

\* A non-zero value of each attribute, inside its range.
SampleValue(attribute) ==
    CASE attribute = "population_density" -> 25000
      [] attribute = "business_density" -> 50
      [] attribute = "rent_price" -> 500000
      [] attribute = "competitor_count" -> 5
      [] attribute = "transportation_score" -> 80
      [] OTHER -> 50000

\* The record in which each attribute is absent, None, 0 or its sample value.
AreaOf(shape) ==
    [attribute \in {a \in DOMAIN shape : shape[a] # "absent"} |->
        CASE shape[attribute] = "none" -> None
          [] shape[attribute] = "zero" -> Some(0)
          [] OTHER -> Some(SampleValue(attribute))]

\* The objects handed to _extract_features.  Among them are the shapes of
\* the mapped classes: ReferenceArea declares population_density,
\* competitor_count and rent_price of the attributes read; LocationData
\* declares all but population_density, and floating_population.
ExtractAreas ==
    {AreaOf(shape) :
        shape \in [ReadAttributes \cup {"floating_population"} ->
                      {"absent", "none", "zero", "value"}]}

ExtractCalls == [op : {"_extract_features"}, area : ExtractAreas, done : {FALSE}]

InitExtract ==
    /\ reference_areas = ReferenceRows
    /\ location_data = <<>>
    /\ analysis_conditions = <<>>
    /\ recommendation_results = <<>>
    /\ response = NoResponse
    /\ call \in ExtractCalls

\* One direct call of AnalysisService._extract_features.
ExtractFeatures ==
    /\ call.op = "_extract_features"
    /\ ~call.done
    /\ call' = [op |-> call.op, area |-> call.area, done |-> TRUE,
                result |-> ExtractOutcome(call.area)]
    /\ UNCHANGED <<reference_areas, location_data, analysis_conditions,
                   recommendation_results, response>>

SpecExtract == InitExtract /\ [][ExtractFeatures]_vars

\* --------------------------------------------------- extractor properties
ExtractDone == call.op = "_extract_features" /\ call.done

\* The record with 0 in place of every read attribute that is None or absent.
ZeroFilled(area) ==
    [attribute \in DOMAIN area \cup ReadAttributes |->
        IF attribute \in ReadAttributes
        THEN IF attribute \in DOMAIN area /\ area[attribute] # None
             THEN area[attribute] ELSE Some(0)
        ELSE area[attribute]]

\* C13: for every attribute the extractor reads, a record on which it is
\* missing (None) or absent gives the features of the record on which it
\* is 0, and the extraction does not fail.
C13_MissingOrAbsentIsZero ==
    ExtractDone =>
        /\ ~call.result.raised
        /\ call.result.features = _extract_features(ZeroFilled(call.area))

\* ------------------------------------------ direct calls of the normaliser
\* Values below, inside and above the ranges; range ends in either order.
NormalizeValues == {-10, 0, 5, 10, 15, 20, 30}
NormalizeEnds == {0, 10, 20}

NormalizeCalls ==
    [op : {"_normalize_value"},
     value : NormalizeValues, other : NormalizeValues,
     min_val : NormalizeEnds, max_val : NormalizeEnds,
     inverse : BOOLEAN,
     done : {FALSE}]

InitNormalize ==
    /\ reference_areas = ReferenceRows
    /\ location_data = <<>>
    /\ analysis_conditions = <<>>
    /\ recommendation_results = <<>>
    /\ response = NoResponse
    /\ call \in NormalizeCalls

\* Two direct calls of AnalysisService._normalize_value on the same range:
\* for value and for other.
NormalizeValue ==
    /\ call.op = "_normalize_value"
    /\ ~call.done
    /\ call' = [op |-> call.op, value |-> call.value, other |-> call.other,
                min_val |-> call.min_val, max_val |-> call.max_val,
                inverse |-> call.inverse, done |-> TRUE,
                result |-> _normalize_value(call.value, call.min_val,
                                            call.max_val, call.inverse),
                result_other |-> _normalize_value(call.other, call.min_val,
                                                  call.max_val, call.inverse)]
    /\ UNCHANGED <<reference_areas, location_data, analysis_conditions,
                   recommendation_results, response>>

SpecNormalize == InitNormalize /\ [][NormalizeValue]_vars

\* -------------------------------------------------- normaliser properties
NormalizeDone == call.op = "_normalize_value" /\ call.done

\* The result is in [0, 1], and is 0.5 when the range is empty.
NormalizeInRange ==
    /\ call.result \in 0..FeatureOne
    /\ call.max_val = call.min_val => call.result = FeatureOne \div 2

\* The results for value <= other are in non-decreasing order without
\* inverse, in non-increasing order with it.
NormalizeMonotonic ==
    call.value <= call.other =>
        IF call.inverse THEN call.result >= call.result_other
        ELSE call.result <= call.result_other

AnalyzeDone == call.op = "analyze_similarity" /\ call.done

\* The score scale's 0.5.
HalfScore == ScoreOne \div 2

\* The score _calculate_similarity gives a location of the table in the
\* finished call, under the weights the call reports.
ScoreInCall(location) ==
    _calculate_similarity(_extract_features(call.reference_area),
                          _extract_features(location), call.result.weights)

\* The locations of the table that pass the filters of the finished call.
PoolInCall ==
    {location \in Range(location_data) : PassesFilters(location, call.analysis_condition)}

ReturnedIds == {call.result.candidates[i].location_id : i \in DOMAIN call.result.candidates}

\* C1: every candidate in the list analyze_similarity returns has a score
\* strictly greater than 0.5; a location of the pool scoring 0.5 or less is
\* not in the list.
C1_ThresholdStrict ==
    AnalyzeDone =>
        /\ \A i \in DOMAIN call.result.candidates :
              call.result.candidates[i].similarity_score > HalfScore
        /\ \A location \in PoolInCall :
              ScoreInCall(location) <= HalfScore => location.id \notin ReturnedIds

\* C1 witness: a location of the pool scores exactly 0.5 and is left out,
\* while another one is returned.
C1_Witness ==
    /\ AnalyzeDone
    /\ call.result.candidates # <<>>
    /\ \E location \in PoolInCall :
          ScoreInCall(location) = HalfScore /\ location.id \notin ReturnedIds

\* C2: a run that ends in the analysis-failure response leaves the persisted
\* recommendations exactly as they were before the run.
C2_FailedRunLeavesNothing ==
    [][(response = NoResponse /\ response'.op = "run_analysis" /\ response'.status = 500)
          => recommendation_results' = recommendation_results]_vars

\* C5: the number of recommendations a run returns and persists is at most
\* min(max_results, number of candidates scoring above 0.5), for every
\* max_results.
C5_TruncatedToMaxResults ==
    (response.op = "run_analysis" /\ response.status = 200) =>
        Len(response.recommendations)
            <= Min(response.request.max_results,
                   Len(response.analysis_results[1].candidates))

\* C6: the list analyze_similarity returns is ordered by score, non-increasing.
C6_SortedDescending ==
    AnalyzeDone =>
        \A i \in DOMAIN call.result.candidates :
            i > 1 => call.result.candidates[i - 1].similarity_score
                        >= call.result.candidates[i].similarity_score

\* Position of the location with this id in the table.
TablePosition(location_id) ==
    CHOOSE i \in DOMAIN location_data : location_data[i].id = location_id

\* C6 witness: two candidates with different scores come back in the
\* opposite of their table order.
C6_Witness ==
    /\ AnalyzeDone
    /\ Len(call.result.candidates) >= 2
    /\ call.result.candidates[1].similarity_score > call.result.candidates[2].similarity_score
    /\ TablePosition(call.result.candidates[1].location_id)
          > TablePosition(call.result.candidates[2].location_id)

\* --------------------------------------------------- condition properties
\* |sum - 1.0| <= 0.001 for five weights.
SumsToOne(weights) == SumSeq(weights) \in (WeightOne - 1)..(WeightOne + 1)

\* C3: every persisted configuration has its five weights summing to 1.0
\* within 0.001, after any sequence of create and update calls.
C3_PersistedWeightsSumToOne ==
    \A i \in DOMAIN analysis_conditions : SumsToOne(WeightsOf(analysis_conditions[i]))

\* The handler answering in this step is a condition endpoint.
ConditionStep(resp) ==
    resp.op \in {"create_analysis_condition", "update_analysis_condition"}

\* The five weights a create or update request would result in: supplied
\* values replacing the ones stored in conditions.
ResultingWeights(resp, conditions) ==
    IF resp.op = "create_analysis_condition"
    THEN [i \in 1..Len(WeightFields) |-> resp.request[WeightFields[i]]]
    ELSE [i \in 1..Len(WeightFields) |->
            IF WeightFields[i] \in DOMAIN resp.request.update_data
            THEN resp.request.update_data[WeightFields[i]]
            ELSE conditions[resp.request.condition_id][WeightFields[i]]]

\* The request answered by resp addresses something that exists.
Addressed(resp, conditions) ==
    resp.op = "update_analysis_condition" => resp.request.condition_id \in DOMAIN conditions

\* C4: a create or update whose resulting weights violate the sum invariant
\* is answered with the validation failure and leaves every stored
\* configuration as it was, and adds none.
C4_RejectedChangesNothing ==
    [][(/\ response = NoResponse
        /\ ConditionStep(response')
        /\ Addressed(response', analysis_conditions)
        /\ ~SumsToOne(ResultingWeights(response', analysis_conditions)))
          => (response'.status = 400 /\ analysis_conditions' = analysis_conditions)]_vars

\* C4 witness: an update carrying a name, a threshold and is_active next to
\* a weight was rejected, and the stored configuration has none of them.
C4_Witness ==
    /\ response.op = "update_analysis_condition"
    /\ response.status = 400
    /\ response.request.condition_id \in DOMAIN analysis_conditions
    /\ {"name", "is_active", "max_competitor_count", "weight_population"}
          \subseteq DOMAIN response.request.update_data
    /\ LET stored == analysis_conditions[response.request.condition_id]
       IN  \A key \in DOMAIN response.request.update_data :
              stored[key] # response.request.update_data[key]

\* ------------------------------------------------------ scorer properties
ScorerDone == call.op = "_calculate_similarity" /\ call.done

\* C7: _calculate_similarity returns a value in [0, 1] for every pair of
\* feature vectors and every weight vector, whatever the weights sum to.
C7_ScoreInUnitInterval ==
    ScorerDone => (call.result \in 0..ScoreOne /\ call.swapped \in 0..ScoreOne)

\* C7 witness: the weighted sum exceeded 1.0 and 1.0 was returned.
C7_Witness ==
    /\ ScorerDone
    /\ RawSimilarity(call.reference_features, call.location_features, call.weights)
          > ScoreOne
    /\ call.result = ScoreOne

\* C8: _calculate_similarity(a, b, w) = _calculate_similarity(b, a, w), also
\* for vectors with different key sets.
C8_Symmetric == ScorerDone => call.result = call.swapped

\* C8 witness: vectors with different key sets, differing on a weighted
\* feature they share, scored strictly between 0 and 1.
C8_Witness ==
    /\ ScorerDone
    /\ DOMAIN call.reference_features # DOMAIN call.location_features
    /\ \E feature \in DOMAIN call.reference_features \cap DOMAIN call.location_features :
          /\ feature \in WKeys(call.weights)
          /\ call.reference_features[feature] # call.location_features[feature]
    /\ call.result > 0
    /\ call.result < ScoreOne

\* The feature names present in both vectors of the call and in its weights.
InAllThree ==
    (DOMAIN call.reference_features \cap DOMAIN call.location_features)
        \cap {call.weights[i].feature : i \in DOMAIN call.weights}

\* weight[f] * (1 - |reference[f] - candidate[f]|)
WeightedTerm(feature) ==
    LET i == CHOOSE j \in DOMAIN call.weights : call.weights[j].feature = feature
        distance == IF call.reference_features[feature] >= call.location_features[feature]
                    THEN call.reference_features[feature] - call.location_features[feature]
                    ELSE call.location_features[feature] - call.reference_features[feature]
    IN  call.weights[i].weight * (FeatureOne - distance)

\* C20: before clamping, the score of _calculate_similarity is the sum of
\* weight[f] * (1 - |reference[f] - candidate[f]|) over exactly the features
\* present in both vectors and in the weights; any other feature adds and
\* subtracts nothing.
C20_RawScoreIsWeightedSum ==
    ScorerDone =>
        call.raw = SumOver(InAllThree, [feature \in InAllThree |-> WeightedTerm(feature)])

\* C20 witness: a weighted feature is in one vector only, another weighted
\* feature is in both with different values, and the sum is positive.
C20_Witness ==
    /\ ScorerDone
    /\ \E i \in DOMAIN call.weights :
          /\ call.weights[i].feature \in DOMAIN call.location_features
          /\ call.weights[i].feature \notin DOMAIN call.reference_features
    /\ \E feature \in InAllThree :
          call.reference_features[feature] # call.location_features[feature]
    /\ call.raw > 0

\* ---------------------------------------------------- analysis properties
\* The weighted features both the reference and the location have.
SharedWeighted(location) ==
    (WKeys(call.result.weights) \cap DOMAIN _extract_features(call.reference_area))
        \cap DOMAIN _extract_features(location)

\* The location's feature values equal the reference's on every weighted
\* feature.
IdenticalInCall(location) ==
    /\ SharedWeighted(location) # {}
    /\ \A feature \in SharedWeighted(location) :
          _extract_features(location)[feature]
              = _extract_features(call.reference_area)[feature]

\* The candidate entry of the location in the returned list has this score.
ReturnedWithScore(location, score) ==
    \E i \in DOMAIN call.result.candidates :
        /\ call.result.candidates[i].location_id = location.id
        /\ call.result.candidates[i].similarity_score = score

\* min(1, max(0, sum of the weights of the weighted features both have)).
WeightSumScore(location) ==
    LET weight == [feature \in SharedWeighted(location) |->
                      WGet(call.result.weights, feature)]
        total == FeatureOne * SumOver(SharedWeighted(location), weight)
    IN  IF total > ScoreOne THEN ScoreOne ELSE IF total < 0 THEN 0 ELSE total

\* C9, as stated: a candidate identical to the reference on every weighted
\* feature scores 1.0 and is in the result, for every weight vector used.
C9_IdenticalScoresOne ==
    AnalyzeDone =>
        \A location \in PoolInCall :
            IdenticalInCall(location) => ReturnedWithScore(location, ScoreOne)

\* C9, amended: a candidate identical to the reference on every weighted
\* feature scores the sum of the weights of those features clamped to
\* [0, 1], and is in the result exactly when that exceeds 0.5; so it scores
\* 1.0 and is returned whenever those weights sum to 1.0 or more.
C9_IdenticalScoresWeightSum ==
    AnalyzeDone =>
        \A location \in PoolInCall :
            IdenticalInCall(location) =>
                IF WeightSumScore(location) > HalfScore
                THEN ReturnedWithScore(location, WeightSumScore(location))
                ELSE location.id \notin ReturnedIds

\* C9 witness: under an override whose weights sum to 0.4 a candidate
\* identical to the reference scores 0.4 and is left out.
C9_Witness ==
    /\ AnalyzeDone
    /\ call.custom_weights # None
    /\ \E location \in PoolInCall :
          /\ IdenticalInCall(location)
          /\ WeightSumScore(location) = (4 * ScoreOne) \div 10
          /\ location.id \notin ReturnedIds

\* The five weights of the call's configuration under the canonical names.
ConfigurationWeightsInCall ==
    [i \in 1..5 |->
        [feature |-> CanonicalFeatures[i],
         weight |-> call.analysis_condition[WeightFields[i]]]]

\* C10, as stated: whenever an override mapping is supplied, the empty one
\* included, the weights used and reported are that mapping; the
\* configuration's weights are used only when none is supplied.
C10_OverrideUsedWheneverSupplied ==
    AnalyzeDone =>
        call.result.weights =
            IF call.custom_weights # None THEN call.custom_weights[1]
            ELSE ConfigurationWeightsInCall

\* C10, amended: a non-empty override mapping is used and reported
\* unmodified; the configuration's weights are used when no override or an
\* empty one is supplied.
C10_NonEmptyOverrideUsed ==
    AnalyzeDone =>
        call.result.weights =
            IF call.custom_weights # None /\ Len(call.custom_weights[1]) > 0
            THEN call.custom_weights[1]
            ELSE ConfigurationWeightsInCall

\* C10 witness: an empty override was supplied and the configuration's five
\* weights were used.
C10_Witness ==
    /\ AnalyzeDone
    /\ call.custom_weights = Some(<<>>)
    /\ call.result.weights = ConfigurationWeightsInCall
    /\ Len(call.result.weights) = 5

\* ---------------------------------------------------------- run properties
\* A handler step of run_analysis: the response it gives is response'.
RunStep == response = NoResponse /\ response'.op = "run_analysis"

\* The configurations a run of this request may use: the one it names, or
\* any active one when it names none.
UsableConditions(request) ==
    IF request.analysis_condition_id # None
    THEN {analysis_conditions[i] :
            i \in {request.analysis_condition_id[1]} \cap DOMAIN analysis_conditions}
    ELSE {analysis_conditions[i] :
            i \in {j \in DOMAIN analysis_conditions : analysis_conditions[j].is_active}}

\* Reference and configuration of the request exist.
Resolvable(request) ==
    /\ request.reference_area_id \in DOMAIN reference_areas
    /\ UsableConditions(request) # {}

\* No row of the table passes the filters of any configuration the run may use.
PoolEmpty(request) ==
    \A condition \in UsableConditions(request) :
        \A location \in Range(location_data) : ~PassesFilters(location, condition)

NamesMissing(request) ==
    \/ request.reference_area_id \notin DOMAIN reference_areas
    \/ /\ request.analysis_condition_id # None
       /\ request.analysis_condition_id[1] \notin DOMAIN analysis_conditions

\* C17: a run naming a reference or a configuration that does not exist is
\* answered with the not-found condition, no scoring having happened, and
\* persists no recommendation.
C17_MissingIsNotFound ==
    [][(RunStep /\ NamesMissing(response'.request))
          => /\ response'.status = 404
             /\ response'.analysis_results = None
             /\ recommendation_results' = recommendation_results]_vars

\* C17 witness: with a configuration stored and locations to score, a run
\* for an existing reference naming another configuration was not found.
C17_Witness ==
    /\ response.op = "run_analysis"
    /\ response.status = 404
    /\ response.request.reference_area_id \in DOMAIN reference_areas
    /\ analysis_conditions # <<>>
    /\ location_data # <<>>

\* ----------------------------------------------------- end-to-end scenario
\* The scenario: the reference (25000, -, 500000, 5, 80), the configuration
\* weights (0.25, 0.25, 0.20, 0.15, 0.15), no override, and a table of the
\* one location with the reference's values.
ScenarioCall ==
    /\ AnalyzeDone
    /\ call.reference_area = ReferenceA
    /\ [i \in 1..5 |-> call.analysis_condition[WeightFields[i]]]
          = <<250, 250, 200, 150, 150>>
    /\ call.custom_weights = None
    /\ Len(location_data) = 1
    /\ \A attribute \in DOMAIN ReferenceA :
          location_data[1][attribute] = ReferenceA[attribute]

\* The scenario's call returned its one candidate with score 1.0.
ScenarioScoresOne ==
    /\ Len(call.result.candidates) = 1
    /\ call.result.candidates[1].location_id = location_data[1].id
    /\ call.result.candidates[1].similarity_score = ScoreOne

\* C14, as stated: in the scenario the candidate is returned with score 1.0
\* and a reason with a clause for each of population, rent price,
\* competition and transportation.
C14_ScenarioListsFourFeatures ==
    ScenarioCall =>
        /\ ScenarioScoresOne
        /\ \A feature \in {"population", "rent_price", "competition", "transportation"} :
              \E i \in DOMAIN call.result.candidates[1].reason :
                  call.result.candidates[1].reason[i] = feature

\* C14, amended: in the scenario the candidate is returned with score 1.0
\* and a reason of exactly three clauses, for population, business density
\* and rent price; competition and transportation, of weight 0.15, have none.
C14_ScenarioListsThreeFeatures ==
    ScenarioCall =>
        /\ ScenarioScoresOne
        /\ call.result.candidates[1].reason
              = <<"population", "business_density", "rent_price">>

\* C14 witness: the scenario's call has returned a candidate.
C14_Witness == ScenarioCall /\ call.result.candidates # <<>>

\* ----------------------------------------------------------- determinism
\* The call of analyze_similarity has been made a second time.
AnalyzedTwice == AnalyzeDone /\ "again" \in DOMAIN call

AppliedIn(resp, condition) ==
    LET pool == {location \in Range(location_data) : PassesFilters(location, condition)}
        result == resp.analysis_results[1]
    IN  /\ (resp.request.custom_weights = None \/ resp.request.custom_weights[1] = <<>>)
              => result.weights =
                    [i \in 1..5 |-> [feature |-> CanonicalFeatures[i],
                                     weight |-> condition[WeightFields[i]]]]
        /\ result.total_candidates = Cardinality(pool)
        /\ \A i \in DOMAIN result.candidates :
              \E location \in pool : location.id = result.candidates[i].location_id

\* C19: a run that names no configuration and reaches the analysis applies
\* the weights and the constraints of a configuration that is active.
C19_DefaultRunUsesActive ==
    (/\ response.op = "run_analysis"
     /\ response.request.analysis_condition_id = None
     /\ response.analysis_results # None)
        => \E i \in DOMAIN analysis_conditions :
              /\ analysis_conditions[i].is_active
              /\ AppliedIn(response, analysis_conditions[i])

\* C19 witness: a run naming no configuration and giving no override
\* succeeded and returned recommendations.
C19_Witness ==
    /\ response.op = "run_analysis"
    /\ response.status = 200
    /\ response.request.analysis_condition_id = None
    /\ response.request.custom_weights = None
    /\ response.recommendations # <<>>
    /\ \E i \in DOMAIN analysis_conditions : analysis_conditions[i].is_active

\* ------------------------------------------------------ persisted records
\* A score to four decimal places, halves rounded up.
RoundedToFourPlaces(score) == ((score + 5) \div 10) * 10

\* After the step, the table is what it was followed by n new rows for the
\* request's reference, the i-th with rank i and the location and reason of
\* the i-th candidate, and scores in non-increasing order of rank.
PersistedFor(resp, n) ==
    /\ Len(recommendation_results') = Len(recommendation_results) + n
    /\ SubSeq(recommendation_results', 1, Len(recommendation_results))
          = recommendation_results
    /\ \A i \in 1..n :
          LET row == recommendation_results'[Len(recommendation_results) + i]
              candidate == resp.analysis_results[1].candidates[i]
          IN  /\ row.reference_area_id = resp.request.reference_area_id
              /\ row.priority_rank = i
              /\ row.recommended_location_id = candidate.location_id
              /\ row.recommendation_reason = candidate.reason
              /\ i > 1 => recommendation_results'[Len(recommendation_results) + i - 1]
                              .similarity_score >= row.similarity_score

\* The i-th new row carries this score.
PersistedScore(i) ==
    recommendation_results'[Len(recommendation_results) + i].similarity_score

\* C18, as stated: after a successful run returning n candidates, exactly n
\* new records exist for the reference, the i-th with priority_rank i and
\* that candidate's location, score and reason, scores non-increasing.
C18_RecordsCarryCandidates ==
    [][(RunStep /\ response'.status = 200)
          => /\ PersistedFor(response', Len(response'.recommendations))
             /\ \A i \in 1..Len(response'.recommendations) :
                   PersistedScore(i)
                       = response'.analysis_results[1].candidates[i].similarity_score]_vars

\* C18, amended: as stated, the i-th record carrying that candidate's score
\* rounded to four decimal places.
C18_RecordsCarryRoundedScores ==
    [][(RunStep /\ response'.status = 200)
          => /\ PersistedFor(response', Len(response'.recommendations))
             /\ \A i \in 1..Len(response'.recommendations) :
                   PersistedScore(i)
                       = RoundedToFourPlaces(
                            response'.analysis_results[1].candidates[i].similarity_score)]_vars

\* C18 witness: a successful run returned two recommendations, one of them
\* with a score that differs from its candidate's in the fifth decimal.
C18_Witness ==
    /\ response.op = "run_analysis"
    /\ response.status = 200
    /\ Len(response.recommendations) = 2
    /\ Len(recommendation_results) >= 2
    /\ \E i \in 1..2 :
          response.recommendations[i].similarity_score
              # response.analysis_results[1].candidates[i].similarity_score

\* ----------------------------------------------------- weights of a scoring
\* C21: every weight of the vector the resolver gives for a persisted
\* configuration is non-negative, after any accepted create or update.
C21_PersistedWeightsNonNegative ==
    \A i \in DOMAIN analysis_conditions :
        LET weights == _get_weights(analysis_conditions[i], None)
        IN  \A j \in DOMAIN weights : weights[j].weight >= 0

\* ------------------------------------ direct calls of the reason generator
\* Feature names and values of the vectors handed to _generate_reason:
\* per-feature similarities of 0.7, 0.8, 0.9 and 1.0 occur.
ReasonFeatures == {"population", "rent_price", "floating_population"}
ReasonValues == {0, 20, 30}

ReasonVectors == UNION {[keys -> ReasonValues] : keys \in SUBSET ReasonFeatures}

\* Weight mappings in several iteration orders: empty; weights above, at and
\* below 0.15; a feature no vector has.
ReasonWeights ==
    {<<>>,
     Weights(<<<<"rent_price", 300>>, <<"population", 200>>,
               <<"floating_population", 150>>>>),
     Weights(<<<<"floating_population", 151>>, <<"rent_price", 150>>,
               <<"population", 700>>>>),
     Weights(<<<<"transportation", 600>>, <<"population", 400>>>>),
     Weights(<<<<"population", 100>>, <<"rent_price", 900>>>>)}

ReasonCalls ==
    [op : {"_generate_reason"},
     reference_features : ReasonVectors,
     location_features : ReasonVectors,
     weights : ReasonWeights,
     done : {FALSE}]

InitReason ==
    /\ reference_areas = ReferenceRows
    /\ location_data = <<>>
    /\ analysis_conditions = <<>>
    /\ recommendation_results = <<>>
    /\ response = NoResponse
    /\ call \in ReasonCalls

\* One direct call of AnalysisService._generate_reason.
GenerateReason ==
    /\ call.op = "_generate_reason"
    /\ ~call.done
    /\ call' = [op |-> call.op, reference_features |-> call.reference_features,
                location_features |-> call.location_features,
                weights |-> call.weights, done |-> TRUE,
                result |-> _generate_reason(call.reference_features,
                                            call.location_features, call.weights)]
    /\ UNCHANGED <<reference_areas, location_data, analysis_conditions,
                   recommendation_results, response>>

SpecReason == InitReason /\ [][GenerateReason]_vars

\* ------------------------------------------------------ reason properties
ReasonDone == call.op = "_generate_reason" /\ call.done

\* Position of the feature in the iteration order of the call's weights.
WeightPosition(feature) ==
    CHOOSE i \in DOMAIN call.weights : call.weights[i].feature = feature

\* 1 - |reference[f] - candidate[f]| in the call.
SimilarityInCall(feature) ==
    LET a == call.reference_features[feature]
        b == call.location_features[feature]
    IN  FeatureOne - (IF a >= b THEN a - b ELSE b - a)

\* The features that qualify for a clause: weighted, in both vectors,
\* similarity > 0.8 and weight > 0.15.
QualifyingInCall ==
    {feature \in {call.weights[i].feature : i \in DOMAIN call.weights} :
        /\ feature \in DOMAIN call.reference_features
        /\ feature \in DOMAIN call.location_features
        /\ SimilarityInCall(feature) > 80
        /\ call.weights[WeightPosition(feature)].weight > 150}

\* C22: _generate_reason emits one clause for a feature exactly when the
\* feature is weighted and in both vectors with similarity > 0.8 and weight
\* > 0.15, the clauses in the iteration order of the weights; when no
\* feature qualifies the reason is the one fallback phrase; it is never
\* empty.
C22_ReasonListsQualifyingFeatures ==
    ReasonDone =>
        /\ call.result # <<>>
        /\ IF QualifyingInCall = {}
           THEN call.result = <<"overall">>
           ELSE /\ {call.result[i] : i \in DOMAIN call.result} = QualifyingInCall
                /\ \A i, j \in DOMAIN call.result :
                      i < j => WeightPosition(call.result[i]) < WeightPosition(call.result[j])

\* C22 witness: two clauses in the order of the weights, which is not the
\* canonical order, a third feature with similarity 1.0 left out for its
\* weight of 0.15.
C22_Witness ==
    /\ ReasonDone
    /\ call.result = <<"rent_price", "population">>
    /\ "floating_population" \in DOMAIN call.reference_features
    /\ "floating_population" \in DOMAIN call.location_features
    /\ SimilarityInCall("floating_population") = FeatureOne
    /\ call.weights[WeightPosition("floating_population")].weight = 150

\* --------------------------------------- direct calls of the factor summary
\* Weights around the two impact thresholds, and 0.
FactorWeightValues == {0, 150, 151, 250, 251}

\* Weight mappings on the first k canonical features, k = 0..5.
FactorWeights ==
    UNION {{[i \in 1..k |-> [feature |-> CanonicalFeatures[i], weight |-> w[i]]] :
                w \in [1..k -> FactorWeightValues]} :
           k \in 0..Len(CanonicalFeatures)}

FactorCalls == [op : {"_analyze_top_factors"}, weights : FactorWeights, done : {FALSE}]

InitFactors ==
    /\ reference_areas = ReferenceRows
    /\ location_data = <<>>
    /\ analysis_conditions = <<>>
    /\ recommendation_results = <<>>
    /\ response = NoResponse
    /\ call \in FactorCalls

\* One direct call of AnalysisService._analyze_top_factors.
AnalyzeTopFactors ==
    /\ call.op = "_analyze_top_factors"
    /\ ~call.done
    /\ call' = [op |-> call.op, weights |-> call.weights, done |-> TRUE,
                result |-> _analyze_top_factors(call.weights)]
    /\ UNCHANGED <<reference_areas, location_data, analysis_conditions,
                   recommendation_results, response>>

SpecFactors == InitFactors /\ [][AnalyzeTopFactors]_vars

\* ------------------------------------------------------ factor properties
FactorsDone == call.op = "_analyze_top_factors" /\ call.done

\* The features the summary lists.
ListedFactors == {call.result[i].factor : i \in DOMAIN call.result}

\* The tag the thresholds 0.25 and 0.15 give a weight.
ImpactTag(weight) ==
    IF weight > 250 THEN "high"
    ELSE IF weight > 150 /\ weight <= 250 THEN "medium"
    ELSE "low"

\* C23: the summary lists min(3, number of weights) distinct entries of the
\* weight vector in non-increasing weight order, no omitted entry having a
\* larger weight than a listed one, each tagged high when weight > 0.25,
\* medium when 0.15 < weight <= 0.25 and low otherwise.
C23_TopFactorsRanked ==
    FactorsDone =>
        /\ Len(call.result) = (IF Len(call.weights) < 3 THEN Len(call.weights) ELSE 3)
        /\ Cardinality(ListedFactors) = Len(call.result)
        /\ \A i \in DOMAIN call.result :
              /\ \E j \in DOMAIN call.weights :
                    /\ call.weights[j].feature = call.result[i].factor
                    /\ call.weights[j].weight = call.result[i].weight
              /\ call.result[i].impact = ImpactTag(call.result[i].weight)
              /\ i > 1 => call.result[i - 1].weight >= call.result[i].weight
              /\ \A j \in DOMAIN call.weights :
                    call.weights[j].feature \notin ListedFactors
                        => call.weights[j].weight <= call.result[i].weight

\* C23 witness: of five weights not in order the three largest are listed,
\* tagged high, medium and low, of weights 0.251, 0.25 and 0.15.
C23_Witness ==
    /\ FactorsDone
    /\ Len(call.weights) = 5
    /\ call.weights[1].weight < call.weights[5].weight
    /\ [i \in 1..3 |-> call.result[i].impact] = <<"high", "medium", "low">>
    /\ [i \in 1..3 |-> call.result[i].weight] = <<251, 250, 150>>

\* ------------------------------------------------------------- tie order
\* C24: candidates with equal scores appear in the list analyze_similarity
\* returns in the relative order of the filtered pool, which is the order of
\* the query's rows.
C24_TiesKeepPoolOrder ==
    AnalyzeDone =>
        \A i, j \in DOMAIN call.result.candidates :
            (/\ i < j
             /\ call.result.candidates[i].similarity_score
                   = call.result.candidates[j].similarity_score)
                => TablePosition(call.result.candidates[i].location_id)
                      < TablePosition(call.result.candidates[j].location_id)

\* C24 witness: two candidates with the same score are returned, the one
\* with the larger id first, as the table has them.
C24_Witness ==
    /\ AnalyzeDone
    /\ Len(call.result.candidates) = 2
    /\ call.result.candidates[1].similarity_score
          = call.result.candidates[2].similarity_score
    /\ call.result.candidates[1].location_id > call.result.candidates[2].location_id

\* ------------------------------------------------------- candidates counted
\* The rows of the table that pass the filters of the configuration.
FilteredPool(condition) ==
    {location \in Range(location_data) : PassesFilters(location, condition)}

\* C25: the total_candidates a run reports is the size of the filtered pool
\* of the configuration it used, whatever the weights and max_results of
\* the request; it is at least the number of candidates above the threshold
\* and at least the number of recommendations returned.
C25_TotalIsPoolSize ==
    (response.op = "run_analysis" /\ response.status = 200) =>
        /\ \E condition \in UsableConditions(response.request) :
              response.total_candidates = Cardinality(FilteredPool(condition))
        /\ response.total_candidates >= Len(response.analysis_results[1].candidates)
        /\ response.total_candidates >= Len(response.recommendations)

\* C25 witness: a run with max_results 1 and override weights returned one
\* recommendation of two candidates and reports 2.
C25_Witness ==
    /\ response.op = "run_analysis"
    /\ response.status = 200
    /\ response.request.max_results = 1
    /\ response.request.custom_weights # None
    /\ Len(response.recommendations) = 1
    /\ Len(response.analysis_results[1].candidates) = 2
    /\ response.total_candidates = 2

\* ------------------------------------------------------- analysis insights
\* Longest result set handed to get_analysis_insights.
MaxInsightResults == 3

\* np.mean([r['similarity_score'] ...]) > bound, for a bound in tenths: the
\* mean is sum / len, compared without rounding.
AvgSimilarityAbove(recommendations, tenths) ==
    10 * SumSeq([i \in DOMAIN recommendations |-> recommendations[i].similarity_score])
        > tenths * ScoreOne * Len(recommendations)

\* np.mean([r['similarity_score'] ...]) < bound.
AvgSimilarityBelow(recommendations, tenths) ==
    10 * SumSeq([i \in DOMAIN recommendations |-> recommendations[i].similarity_score])
        < tenths * ScoreOne * Len(recommendations)

\* region_distribution.get(region): the results of the region.
RegionCount(recommendations, region) ==
    Cardinality({i \in DOMAIN recommendations : recommendations[i].location.sido = region})

\* The position at which the region became a key of region_distribution.
RegionFirstSeen(recommendations, region) ==
    CHOOSE i \in DOMAIN recommendations :
        /\ recommendations[i].location.sido = region
        /\ \A j \in 1..(i - 1) : recommendations[j].location.sido # region

\* The region of the first result.
TopRegion_of_first(recommendations) == recommendations[1].location.sido

\* max(region_distribution, key=region_distribution.get): the first key, in
\* insertion order, with the largest count.
TopRegion(recommendations) ==
    LET regions == {recommendations[i].location.sido : i \in DOMAIN recommendations}
    IN  CHOOSE region \in regions :
            \A other \in regions :
                \/ RegionCount(recommendations, other) < RegionCount(recommendations, region)
                \/ /\ RegionCount(recommendations, other)
                         = RegionCount(recommendations, region)
                   /\ RegionFirstSeen(recommendations, region)
                         <= RegionFirstSeen(recommendations, other)

\* AnalysisService.get_analysis_insights: the list under "insights".
get_analysis_insights(recommendations) ==
    IF recommendations = <<>> THEN <<>>
    ELSE LET average ==
                 IF AvgSimilarityAbove(recommendations, 8)
                 THEN <<[type |-> "positive", region |-> None]>>
                 ELSE IF AvgSimilarityBelow(recommendations, 6)
                      THEN <<[type |-> "warning", region |-> None]>>
                      ELSE <<>>
         IN  average \o <<[type |-> "info", region |-> Some(TopRegion(recommendations))]>>

\* Scores around the bounds 0.6 and 0.8, and the regions of the results.
InsightScores == {40000, 60000, 80000, 80001, 100000}
InsightRegions == {"Seoul", "Busan"}

InsightResults ==
    UNION {[1..n -> [similarity_score : InsightScores,
                     location : [sido : InsightRegions]]] :
           n \in 0..MaxInsightResults}

InsightCalls ==
    [op : {"get_analysis_insights"}, recommendations : InsightResults, done : {FALSE}]

InitInsights ==
    /\ reference_areas = ReferenceRows
    /\ location_data = <<>>
    /\ analysis_conditions = <<>>
    /\ recommendation_results = <<>>
    /\ response = NoResponse
    /\ call \in InsightCalls

\* One direct call of AnalysisService.get_analysis_insights.
GetAnalysisInsights ==
    /\ call.op = "get_analysis_insights"
    /\ ~call.done
    /\ call' = [op |-> call.op, recommendations |-> call.recommendations,
                done |-> TRUE,
                result |-> get_analysis_insights(call.recommendations)]
    /\ UNCHANGED <<reference_areas, location_data, analysis_conditions,
                   recommendation_results, response>>

SpecInsights == InitInsights /\ [][GetAnalysisInsights]_vars

\* ----------------------------------------------------- insight properties
InsightsDone == call.op = "get_analysis_insights" /\ call.done

\* The insights of this type in the result.
InsightsOfType(type) == {i \in DOMAIN call.result : call.result[i].type = type}

\* Sum of the scores of the call's results.
ScoreTotal ==
    SumOver(DOMAIN call.recommendations,
            [i \in DOMAIN call.recommendations |->
                call.recommendations[i].similarity_score])

\* The results of the call in the region.
ResultsIn(region) ==
    Cardinality({i \in DOMAIN call.recommendations :
                    call.recommendations[i].location.sido = region})

\* C26: over a non-empty result set get_analysis_insights emits a positive
\* insight exactly when the mean score is > 0.8, a warning exactly when it
\* is < 0.6, and exactly one info insight, naming a region with the most
\* results, and nothing else; over an empty result set it emits nothing.
C26_InsightsFollowMeanAndMode ==
    InsightsDone =>
        IF call.recommendations = <<>> THEN call.result = <<>>
        ELSE LET n == Len(call.recommendations)
             IN  /\ Cardinality(InsightsOfType("positive"))
                       = (IF 10 * ScoreTotal > 8 * ScoreOne * n THEN 1 ELSE 0)
                 /\ Cardinality(InsightsOfType("warning"))
                       = (IF 10 * ScoreTotal < 6 * ScoreOne * n THEN 1 ELSE 0)
                 /\ Cardinality(InsightsOfType("info")) = 1
                 /\ \A i \in DOMAIN call.result :
                       call.result[i].type \in {"positive", "warning", "info"}
                 /\ \A i \in InsightsOfType("info") :
                       /\ call.result[i].region # None
                       /\ ResultsIn(call.result[i].region[1]) >= 1
                       /\ \A region \in InsightRegions :
                             ResultsIn(region) <= ResultsIn(call.result[i].region[1])

\* C26 witness: three results of mean above 0.8, the first in one region
\* and the other two in another, gave a positive insight and an info
\* insight naming the region of the two.
C26_Witness ==
    /\ InsightsDone
    /\ Len(call.recommendations) = 3
    /\ call.recommendations[1].location.sido = "Seoul"
    /\ call.result = <<[type |-> "positive", region |-> None],
                       [type |-> "info", region |-> Some("Busan")]>>

\* ------------------------------------------------------ interleaved runs
\* Two callers of POST /run, each with its own session and services.  The
\* statements of a run are its reads and the analysis (BeginRun), one
\* add-and-commit per recommendation (PersistRow, or FailRow when the commit
\* raises) and the return (ReturnRun); statements of the two runs interleave.
Callers == {1, 2}

\* The configuration stored when the runs start.
StoredCondition == NewCondition(ConditionRequest("standard", DefaultWeights, DefaultThresholds))

\* Requests the two callers send: either reference, the configuration named
\* or left to the default, with or without an override, max_results 1 or 10.
InterleavedRequests ==
    [reference_area_id : 1..Len(ReferenceRows),
     analysis_condition_id : {None, Some(1)},
     custom_weights : {None, Some(Weights(<<<<"rent_price", 555>>, <<"competition", 333>>>>))},
     max_results : {1, 10}]

IdleRun(request) == [request |-> request, pc |-> "idle"]

InitRuns ==
    /\ reference_areas = ReferenceRows
    /\ location_data \in RunTables
    /\ analysis_conditions = <<StoredCondition>>
    /\ recommendation_results = <<>>
    /\ response = NoResponse
    /\ \E first \in InterleavedRequests, second \in InterleavedRequests :
          call = [op |-> "runs", runs |-> <<IdleRun(first), IdleRun(second)>>]

\* The run of caller p replaced by run.
WithRun(p, run) == [op |-> call.op, runs |-> [call.runs EXCEPT ![p] = run]]

\* run_analysis up to the persisting loop: reference and configuration are
\* read, analyze_similarity returns, the slice to persist is taken.
BeginRun(p) ==
    LET run == call.runs[p]
        request == run.request
        condition_id == IF request.analysis_condition_id # None
                        THEN request.analysis_condition_id[1]
                        ELSE CHOOSE i \in ActiveConditions : TRUE
    IN  /\ run.pc = "idle"
        /\ \E analysis_results \in
                {analyze_similarity(reference_areas[request.reference_area_id],
                                    analysis_conditions[condition_id],
                                    request.custom_weights, request.max_results)} :
              call' = WithRun(p, [request |-> request, pc |-> "persisting",
                                  analysis_results |-> analysis_results,
                                  todo |-> RunRecommendations(request,
                                                              analysis_results.candidates),
                                  recommendations |-> <<>>])
        /\ UNCHANGED <<reference_areas, location_data, analysis_conditions,
                       recommendation_results, response>>

\* One create_recommendation of the persisting loop: the row is added and
\* committed, and appended to the run's recommendations.
PersistRow(p) ==
    LET run == call.runs[p]
    IN  /\ run.pc = "persisting"
        /\ Len(run.recommendations) < Len(run.todo)
        /\ LET row == run.todo[Len(run.recommendations) + 1]
           IN  /\ recommendation_results' = Append(recommendation_results, row)
               /\ call' = WithRun(p, [run EXCEPT
                                        !.recommendations = Append(@, row)])
        /\ UNCHANGED <<reference_areas, location_data, analysis_conditions, response>>

\* The commit of a create_recommendation raises: the handler answers 500.
FailRow(p) ==
    LET run == call.runs[p]
    IN  /\ run.pc = "persisting"
        /\ Len(run.recommendations) < Len(run.todo)
        /\ call' = WithRun(p, [run EXCEPT !.pc = "failed"])
        /\ UNCHANGED <<reference_areas, location_data, analysis_conditions,
                       recommendation_results, response>>

\* The loop is over: the handler returns its AnalysisResponse.
ReturnRun(p) ==
    LET run == call.runs[p]
    IN  /\ run.pc = "persisting"
        /\ Len(run.recommendations) = Len(run.todo)
        /\ call' = WithRun(p, [request |-> run.request, pc |-> "returned",
                               analysis_results |-> run.analysis_results,
                               todo |-> run.todo,
                               recommendations |-> run.recommendations,
                               returned |-> AnalysisResponse(run.request,
                                                run.analysis_results,
                                                run.recommendations)])
        /\ UNCHANGED <<reference_areas, location_data, analysis_conditions,
                       recommendation_results, response>>

NextRuns ==
    \E p \in Callers : BeginRun(p) \/ PersistRow(p) \/ FailRow(p) \/ ReturnRun(p)

SpecRuns == InitRuns /\ [][NextRuns]_vars

\* -------------------------------------------------- independence of runs
\* What a run of the request returns as candidates when it is the only run:
\* the rows of the table passing the stored configuration's filters, scored
\* against the request's reference under its weights, above the threshold,
\* sorted.
AloneCandidates(request) ==
    LET condition == analysis_conditions[1]
        Passes(location) == PassesFilters(location, condition)
        weights == IF request.custom_weights # None /\ request.custom_weights[1] # <<>>
                   THEN request.custom_weights[1]
                   ELSE ConditionWeights(condition)
    IN  SortSimilarities(
            Survivors(_extract_features(reference_areas[request.reference_area_id]),
                      SelectSeq(location_data, Passes), weights))

\* The records a run of the request persists when it is the only run: for
\* the i-th of the first max_results candidates, the request's reference,
\* rank i, the candidate's location and reason and its stored score.
AloneRecords(request) ==
    LET chosen == SliceTo(AloneCandidates(request), request.max_results)
    IN  [i \in 1..Len(chosen) |->
            [reference_area_id |-> request.reference_area_id,
             recommended_location_id |-> chosen[i].location_id,
             similarity_score |-> StoreScore(chosen[i].similarity_score),
             recommendation_reason |-> chosen[i].reason,
             priority_rank |-> i]]

\* The table is an interleaving of the two sequences: some positions hold
\* the first in order, the others the second in order.
Interleaving(table, first, second) ==
    /\ Len(table) = Len(first) + Len(second)
    /\ \E positions \in SUBSET DOMAIN table :
          LET Taken(i) == i \in positions
              Left(i) == i \notin positions
              Index(s) == [i \in DOMAIN s |-> i]
              at == SelectSeq(Index(table), Taken)
              rest == SelectSeq(Index(table), Left)
          IN  /\ [i \in DOMAIN at |-> table[at[i]]] = first
              /\ [i \in DOMAIN rest |-> table[rest[i]]] = second

\* The records caller p's run has persisted so far.
PersistedBy(p) ==
    IF call.runs[p].pc = "idle" THEN <<>> ELSE call.runs[p].recommendations

\* C27: however the two runs interleave, a run that returns returns the
\* candidates, scores, reasons and ranks it returns when run alone on the
\* same data; the records a run persists are the leading records of those
\* it persists alone, and the table holds the records of the two runs and
\* nothing else.
C27_RunsIndependent ==
    call.op = "runs" =>
        /\ \A p \in Callers :
              /\ PersistedBy(p)
                    = SubSeq(AloneRecords(call.runs[p].request), 1, Len(PersistedBy(p)))
              /\ call.runs[p].pc = "returned" =>
                    /\ call.runs[p].returned.analysis_results[1].candidates
                          = AloneCandidates(call.runs[p].request)
                    /\ call.runs[p].returned.recommendations
                          = AloneRecords(call.runs[p].request)
        /\ Interleaving(recommendation_results, PersistedBy(1), PersistedBy(2))

\* C27 witness: two runs for different references have both returned two
\* recommendations each, and a record of one lies between the two records
\* of the other in the table.
C27_Witness ==
    /\ call.op = "runs"
    /\ \A p \in Callers :
          call.runs[p].pc = "returned" /\ Len(call.runs[p].returned.recommendations) = 2
    /\ call.runs[1].request.reference_area_id # call.runs[2].request.reference_area_id
    /\ recommendation_results[1].reference_area_id
          # recommendation_results[2].reference_area_id
    /\ recommendation_results[1].reference_area_id
          = recommendation_results[3].reference_area_id

\* -------------------------------------------------------- pool membership
PoolIds == {location.id : location \in PoolInCall}

\* The location ids of the sequence are distinct and belong to the pool.
DistinctPoolIds(ids) ==
    /\ \A i \in DOMAIN ids : ids[i] \in PoolIds
    /\ \A i, j \in DOMAIN ids : i # j => ids[i] # ids[j]

\* C28: every candidate analyze_similarity returns is a record of the
\* filtered pool and no record appears twice, under any weights; the
\* recommendations persisted of the result name distinct locations of the pool.
C28_CandidatesAreDistinctPoolMembers ==
    AnalyzeDone =>
        /\ DistinctPoolIds([i \in DOMAIN call.result.candidates |->
                               call.result.candidates[i].location_id])
        /\ DistinctPoolIds([i \in DOMAIN recommendation_results |->
                               recommendation_results[i].recommended_location_id])

\* C28 witness: under override weights, with a row of the table outside the
\* pool that scores above the threshold, the candidates returned were
\* persisted.
C28_Witness ==
    /\ AnalyzeDone
    /\ call.custom_weights # None
    /\ recommendation_results # <<>>
    /\ \E location \in Range(location_data) :
          location.id \notin PoolIds /\ ScoreInCall(location) > HalfScore

\* ------------------------------------------- stored recommendation records
\* Most rows of recommendation_results when a maintenance operation of
\* RecommendationService is called.
MaxStoredRecommendations == 3

\* A stored row: primary key, reference, analysis_date (the column default
\* now() at insertion; rows inserted within one tick share it), rank.
StoredRow(id, reference_area_id, analysis_date) ==
    [id |-> id, reference_area_id |-> reference_area_id,
     analysis_date |-> analysis_date, priority_rank |-> id]

\* Tables of rows with distinct ids, for two references, over three dates.
StoredTables ==
    UNION {{[i \in 1..n |-> StoredRow(i, t[i].reference_area_id, t[i].analysis_date)] :
                t \in [1..n -> [reference_area_id : 1..Len(ReferenceRows),
                                analysis_date : 1..3]]} :
           n \in 0..MaxStoredRecommendations}

\* The rows of the table for the reference.
RowsOf(table, reference_area_id) ==
    {table[i] : i \in {j \in DOMAIN table : table[j].reference_area_id = reference_area_id}}

\* The query ordered by analysis_date ascending.
LatestIdChoices_oldest(table, reference_area_id, keep_latest) ==
    LET rows == RowsOf(table, reference_area_id)
        size == Min(keep_latest, Cardinality(rows))
    IN  {{row.id : row \in chosen} :
            chosen \in {c \in SUBSET rows :
                           /\ Cardinality(c) = size
                           /\ \A kept \in c, left \in rows \ c :
                                 kept.analysis_date <= left.analysis_date}}

\* The id lists the "latest" query may return: keep_latest rows of the
\* reference (all of them when there are fewer), none older than a row of
\* the reference left out; rows of equal analysis_date come in any order.
LatestIdChoices(table, reference_area_id, keep_latest) ==
    LET rows == RowsOf(table, reference_area_id)
        size == Min(keep_latest, Cardinality(rows))
    IN  {{row.id : row \in chosen} :
            chosen \in {c \in SUBSET rows :
                           /\ Cardinality(c) = size
                           /\ \A kept \in c, left \in rows \ c :
                                 kept.analysis_date >= left.analysis_date}}

DeleteCalls ==
    [op : {"delete_old_recommendations"},
     reference_area_id : 1..(Len(ReferenceRows) + 1),
     keep_latest : 0..MaxStoredRecommendations,
     done : {FALSE}]

InitDelete ==
    /\ reference_areas = ReferenceRows
    /\ location_data = <<>>
    /\ analysis_conditions = <<>>
    /\ recommendation_results \in StoredTables
    /\ response = NoResponse
    /\ call \in DeleteCalls

\* RecommendationService.delete_old_recommendations
delete_old_recommendations(reference_area_id, keep_latest) ==
    \E latest_ids \in LatestIdChoices(recommendation_results, reference_area_id, keep_latest) :
        LET Stays(row) ==
                ~(row.reference_area_id = reference_area_id /\ row.id \notin latest_ids)
            remaining == SelectSeq(recommendation_results, Stays)
        IN  /\ recommendation_results' = remaining
            /\ call' = [op |-> call.op, reference_area_id |-> reference_area_id,
                        keep_latest |-> keep_latest, done |-> TRUE,
                        deleted_count |-> Len(recommendation_results) - Len(remaining)]

\* One call of delete_old_recommendations.
DeleteOldRecommendations ==
    /\ call.op = "delete_old_recommendations"
    /\ ~call.done
    /\ delete_old_recommendations(call.reference_area_id, call.keep_latest)
    /\ UNCHANGED <<reference_areas, location_data, analysis_conditions, response>>

SpecDelete == InitDelete /\ [][DeleteOldRecommendations]_vars

\* ---------------------------------------------------- deletion properties
\* Rows of the table for the reference, and for every other reference, in
\* table order.
RowsFor(table, reference_area_id) ==
    LET Mine(row) == row.reference_area_id = reference_area_id
    IN  SelectSeq(table, Mine)

RowsNotFor(table, reference_area_id) ==
    LET Others(row) == row.reference_area_id # reference_area_id
    IN  SelectSeq(table, Others)

\* C29: after delete_old_recommendations(reference_area_id, keep_latest)
\* the reference has min(previous count, keep_latest) records left, each
\* one of its records as it was, none of them older than a deleted one, and
\* the records of every other reference are as they were.
C29_KeepsLatestOfReference ==
    [][(call'.op = "delete_old_recommendations" /\ ~call.done /\ call'.done) =>
          LET before == RowsFor(recommendation_results, call'.reference_area_id)
              after == RowsFor(recommendation_results', call'.reference_area_id)
              gone == {before[i] : i \in DOMAIN before} \ {after[i] : i \in DOMAIN after}
          IN  /\ Len(after) = (IF Len(before) < call'.keep_latest
                               THEN Len(before) ELSE call'.keep_latest)
              /\ \A i \in DOMAIN after : \E j \in DOMAIN before : after[i] = before[j]
              /\ \A i \in DOMAIN after : \A row \in gone :
                    after[i].analysis_date >= row.analysis_date
              /\ call'.deleted_count = Len(before) - Len(after)
              /\ RowsNotFor(recommendation_results', call'.reference_area_id)
                    = RowsNotFor(recommendation_results, call'.reference_area_id)]_vars

\* C29 witness: a call with keep_latest 1 deleted one of two records of the
\* reference, leaving the later one and a record of another reference.
C29_Witness ==
    /\ call.op = "delete_old_recommendations"
    /\ call.done
    /\ call.keep_latest = 1
    /\ call.deleted_count = 1
    /\ Len(recommendation_results) = 2
    /\ \E i, j \in DOMAIN recommendation_results :
          /\ recommendation_results[i].reference_area_id = call.reference_area_id
          /\ recommendation_results[i].analysis_date > 1
          /\ recommendation_results[j].reference_area_id # call.reference_area_id

\* ------------------------------------------------ bulk update of priorities
\* The row the query of one update finds, by id alone.
FindRecommendation_by_id_only(table, recommendation_id, reference_area_id) ==
    {i \in DOMAIN table : table[i].id = recommendation_id}

\* filter(id == update['recommendation_id'],
\*        reference_area_id == reference_area_id).first()
FindRecommendation(table, recommendation_id, reference_area_id) ==
    {i \in DOMAIN table :
        /\ table[i].id = recommendation_id
        /\ table[i].reference_area_id = reference_area_id}

RECURSIVE ApplyPriorityUpdates(_, _, _, _)
\* The loop of bulk_update_priorities from update i on, over the rows as
\* the session holds them: whether a subscript raised KeyError, and the rows.
\* update['recommendation_id'] is read for the query; update['priority_rank']
\* is read only when the query found a row.
ApplyPriorityUpdates(table, reference_area_id, priority_updates, i) ==
    IF i > Len(priority_updates) THEN [raised |-> FALSE, table |-> table]
    ELSE LET update == priority_updates[i]
         IN  IF update.recommendation_id = None
             THEN [raised |-> TRUE, table |-> table]
             ELSE LET found == FindRecommendation(table, update.recommendation_id[1],
                                                  reference_area_id)
                  IN  IF found = {}
                      THEN ApplyPriorityUpdates(table, reference_area_id,
                                                priority_updates, i + 1)
                      ELSE IF update.priority_rank = None
                           THEN [raised |-> TRUE, table |-> table]
                           ELSE ApplyPriorityUpdates(
                                    [j \in DOMAIN table |->
                                        IF j \in found
                                        THEN [table[j] EXCEPT
                                                !.priority_rank = update.priority_rank[1]]
                                        ELSE table[j]],
                                    reference_area_id, priority_updates, i + 1)

\* RecommendationService.bulk_update_priorities; commit_fails: db.commit()
\* raises.  The changes reach the table at the one commit after the loop;
\* rollback() discards them.
bulk_update_priorities(reference_area_id, priority_updates, commit_fails) ==
    LET outcome == ApplyPriorityUpdates(recommendation_results, reference_area_id,
                                        priority_updates, 1)
        failed == outcome.raised \/ commit_fails
    IN  /\ recommendation_results' =
              IF failed THEN recommendation_results ELSE outcome.table
        /\ call' = [op |-> call.op, reference_area_id |-> reference_area_id,
                    priority_updates |-> priority_updates,
                    commit_fails |-> commit_fails, done |-> TRUE,
                    result |-> ~failed]

\* The tables of the calls: the stored tables of one date.
PriorityTables ==
    {table \in StoredTables : \A i \in DOMAIN table : table[i].analysis_date = 1}

\* One update dict: keys present or missing.
PriorityUpdate(recommendation_id, priority_rank) ==
    [recommendation_id |-> recommendation_id, priority_rank |-> priority_rank]

\* The dicts of the lists: every id of a table and one of none, two ranks,
\* and dicts without one of the keys.
PriorityUpdateChoices ==
    {PriorityUpdate(Some(id), Some(7)) : id \in 1..(MaxStoredRecommendations + 1)}
        \cup {PriorityUpdate(Some(1), Some(8)), PriorityUpdate(None, Some(7)),
              PriorityUpdate(Some(1), None), PriorityUpdate(Some(2), None)}

PriorityUpdateLists ==
    UNION {[1..n -> PriorityUpdateChoices] : n \in 0..2}

PriorityCalls ==
    [op : {"bulk_update_priorities"},
     reference_area_id : 1..(Len(ReferenceRows) + 1),
     priority_updates : PriorityUpdateLists,
     commit_fails : BOOLEAN,
     done : {FALSE}]

InitPriorities ==
    /\ reference_areas = ReferenceRows
    /\ location_data = <<>>
    /\ analysis_conditions = <<>>
    /\ recommendation_results \in PriorityTables
    /\ response = NoResponse
    /\ call \in PriorityCalls

\* One call of bulk_update_priorities.
BulkUpdatePriorities ==
    /\ call.op = "bulk_update_priorities"
    /\ ~call.done
    /\ bulk_update_priorities(call.reference_area_id, call.priority_updates,
                              call.commit_fails)
    /\ UNCHANGED <<reference_areas, location_data, analysis_conditions, response>>

SpecPriorities == InitPriorities /\ [][BulkUpdatePriorities]_vars

\* ---------------------------------------------------- priority properties
\* The update list of the finished call names the record.
NamedInUpdates(id) ==
    \E k \in DOMAIN call'.priority_updates :
        call'.priority_updates[k].recommendation_id = <<id>>

\* C30: bulk_update_priorities changes nothing but priority_rank, and that
\* only on records of the given reference that the updates name; records of
\* other references stay as they are also when their ids are listed; when
\* it returns False the table is as it was.
C30_UpdatesOnlyNamedOfReference ==
    [][(call'.op = "bulk_update_priorities" /\ ~call.done /\ call'.done) =>
          /\ Len(recommendation_results') = Len(recommendation_results)
          /\ \A i \in DOMAIN recommendation_results :
                LET old == recommendation_results[i]
                    new == recommendation_results'[i]
                IN  /\ new.id = old.id
                    /\ new.reference_area_id = old.reference_area_id
                    /\ new.analysis_date = old.analysis_date
                    /\ new.priority_rank # old.priority_rank =>
                          /\ old.reference_area_id = call'.reference_area_id
                          /\ NamedInUpdates(old.id)
          /\ ~call'.result => recommendation_results' = recommendation_results]_vars

\* C30 witness: a call that returned True listed a record of the reference
\* and a record of another reference; the first has the new rank, the
\* second the rank it had.
C30_Witness ==
    /\ call.op = "bulk_update_priorities"
    /\ call.done
    /\ call.result
    /\ \E i, j \in DOMAIN recommendation_results :
          /\ recommendation_results[i].reference_area_id = call.reference_area_id
          /\ recommendation_results[i].priority_rank = 7
          /\ recommendation_results[j].reference_area_id # call.reference_area_id
          /\ recommendation_results[j].priority_rank = recommendation_results[j].id
          /\ \E k \in DOMAIN call.priority_updates :
                call.priority_updates[k]
                    = PriorityUpdate(Some(recommendation_results[j].id), Some(7))

====
